---- MODULE Spec2Model ----
(***************************************************************************)
(* Routing data of antsibull-docs-loader: the metadata loader's per-plugin *)
(* record and the redirect resolver of routing.py.                         *)
(*                                                                         *)
(* Encoding of Python values:                                              *)
(*   - a dotted name "foo.bar.m1" is the sequence of its dot-separated     *)
(*     parts <<"foo", "bar", "m1">>, so that str.split and the f-string    *)
(*     concatenations of the source are computed, not looked up;           *)
(*   - Optional[X] is a sequence of length <= 1: None is << >>, a value x  *)
(*     is <<x>>;                                                           *)
(*   - the redirect field (str | Ellipsis | None) is a record with a kind  *)
(*     ("none", "ellipsis", "str") and the name (<< >> unless "str");      *)
(*   - a dict is a function; dict iteration order is not modelled as a     *)
(*     fixed order: the loops over dicts pick any not yet visited key.     *)
(***************************************************************************)
EXTENDS Integers, Sequences, FiniteSets, TLC

VARIABLES
    routing_data,   \* the catalog: collection name -> CollectionRouting
    loaded,         \* the catalog as collect_routing_information returned it
    pc,             \* "idle", "all" (in complete_redirects), "one" (in a direct
                    \* complete_redirects_for_collection call)
    colls_todo,     \* complete_redirects: collections still to be iterated
    cur_coll,       \* Optional: collection of the running per-collection loop
    types_todo,     \* plugin types of cur_coll still to be iterated
    cur_type,       \* Optional: plugin type of the running inner loop
    names_todo,     \* list(plugin_routing_data) snapshot: names still to visit
    resolved,       \* a complete_redirects call has returned
    raised,         \* an exception escaped from the resolver
    yaml_data,      \* _load_routing_information: the plugin_routing mapping
    loader_out,     \* Optional: what _load_routing_information returned
    collection_infos,   \* collect_routing_information: the collections, in order
    handle_broken,  \* Optional: the handler, as its answer for each collection
    position,       \* number of collections the loop has handled
    collected,      \* the result dict of collect_routing_information
    outcome,        \* "running", "returned" or "raised"
    exception,      \* Optional: the exception that left collect_routing_information
    build_arg,      \* CollectionInfos.build: the iterable it is given
    build_out,      \* Optional: what CollectionInfos.build returned or raised
    cli_args,       \* ansible_galaxy_list_collections: its arguments and os.environ
    runner_calls,   \* the runner's invocations: args, env and what it answered
    cli_pc,         \* "start", "compat" (before the fallback invocation), "done"
    yielded,        \* the CollectionInfo objects the generator has yielded
    cli_exc,        \* Optional: the exception that left the generator
    dir_args,       \* get_plugin_directory: collection and plugin type
    dir_out         \* Optional: the path it returned or the error it raised

resolver_vars == <<routing_data, loaded, pc, colls_todo, cur_coll, types_todo, cur_type,
                   names_todo, resolved, raised>>
loader_vars == <<yaml_data, loader_out>>
collect_vars == <<collection_infos, handle_broken, position, collected, outcome, exception>>
build_vars == <<build_arg, build_out>>
cli_vars == <<cli_args, runner_calls, cli_pc, yielded, cli_exc>>
dir_vars == <<dir_args, dir_out>>
vars == <<resolver_vars, loader_vars, collect_vars, build_vars, cli_vars, dir_vars>>

----------------------------------------------------------------------------
(* Bounds of the model *)

\* number of plugins of a catalog that have a deprecation / a tombstone
MaxDeprecated == 2
MaxTombstoned == 1

\* number of labels in the plugin_routing mapping of one document
MaxLabels == 2

\* number of collections collect_routing_information is given
MaxCollections == 2

----------------------------------------------------------------------------
(* Python helpers *)

None == << >>
Some(x) == <<x>>
IsNone(o) == o = << >>
Val(o) == o[1]

\* the variables of an operation that the specification at hand does not run
ResolverUnused ==
    /\ routing_data = << >> /\ loaded = << >> /\ pc = "unused"
    /\ colls_todo = {} /\ cur_coll = None /\ types_todo = {} /\ cur_type = None
    /\ names_todo = {} /\ resolved = FALSE /\ raised = FALSE
LoaderUnused == yaml_data = << >> /\ loader_out = None
CollectUnused ==
    /\ collection_infos = << >> /\ handle_broken = None /\ position = 0
    /\ collected = << >> /\ outcome = "unused" /\ exception = None
BuildUnused == build_arg = << >> /\ build_out = None
CliUnused ==
    /\ cli_args = << >> /\ runner_calls = << >> /\ cli_pc = "unused"
    /\ yielded = << >> /\ cli_exc = None
DirUnused == dir_args = << >> /\ dir_out = None

\* range of a sequence
Range(s) == {s[i] : i \in 1..Len(s)}

\* s[k:] for a 0-based k
DropFirst(s, k) == SubSeq(s, k + 1, Len(s))

\* str.split(".", 2): at most three parts, the third keeps the remaining dots
Split2(name) ==
    IF Len(name) < 3 THEN [i \in 1..Len(name) |-> <<name[i]>>]
    ELSE <<(<<name[1]>>), (<<name[2]>>), DropFirst(name, 2)>>

\* f"{a}.{b}"
Dot(a, b) == a \o b

----------------------------------------------------------------------------
(* Data model *)

RedirectNone == [kind |-> "none", name |-> << >>]
Ellipsis == [kind |-> "ellipsis", name |-> << >>]
RedirectStr(n) == [kind |-> "str", name |-> n]

RemovalData(text) == [warning_text |-> text]

PluginRouting(ap, rdr, chain, deps, tomb, dead, err, dep, ts) ==
    [action_plugin |-> ap, redirect |-> rdr, redirect_chain |-> chain,
     redirect_deprecations |-> deps, redirect_tombstone |-> tomb,
     redirect_dead_end |-> dead, redirect_error |-> err,
     deprecation |-> dep, tombstone |-> ts]

CircularError == <<"Detected circular redirect">>
NonFqcnError(name) == <<"Found redirect to non-FQCN", name>>
UnknownCollectionError(coll) == <<"Found redirect to unknown collection", coll>>

----------------------------------------------------------------------------
(* Metadata loader: one plugin entry of a runtime.yml document.  A document *)
(* entry is a record of Optionals (a key that is absent is None).           *)

PluginDoc(rdr, dep, ts, ap) ==
    [redirect |-> rdr, deprecation |-> dep, tombstone |-> ts, action_plugin |-> ap]

_load_removal_data(plugin_doc, typ) ==
    IF typ = "deprecation" THEN plugin_doc.deprecation ELSE plugin_doc.tombstone

\* SelfRedirectChain that names the plugin once
SelfRedirectChainOnce(plugin_fqcn) == <<plugin_fqcn>>

\* redirect_chain = (plugin_fqcn, plugin_fqcn)
SelfRedirectChain(plugin_fqcn) == <<plugin_fqcn, plugin_fqcn>>

_parse_plugin_data(plugin_doc, own_name, real_plugin_type, plugin_name) ==
    IF /\ IsNone(plugin_doc.redirect) /\ IsNone(plugin_doc.deprecation)
       /\ IsNone(plugin_doc.tombstone) /\ IsNone(plugin_doc.action_plugin)
    THEN PluginRouting(None, RedirectNone, None, None, FALSE, FALSE, None, None, None)
    ELSE
    LET deprecation == _load_removal_data(plugin_doc, "deprecation")
        tombstone == _load_removal_data(plugin_doc, "tombstone")
        plugin_fqcn == Dot(own_name, plugin_name)
        action_plugin == IF real_plugin_type = "module" THEN plugin_doc.action_plugin
                         ELSE None
        self == ~IsNone(plugin_doc.redirect) /\ Val(plugin_doc.redirect) = plugin_fqcn
    IN  PluginRouting(
            action_plugin,
            IF IsNone(plugin_doc.redirect) THEN RedirectNone
            ELSE IF self THEN Ellipsis
            ELSE RedirectStr(Val(plugin_doc.redirect)),
            IF self THEN Some(SelfRedirectChain(plugin_fqcn)) ELSE None,
            IF self /\ ~IsNone(deprecation)
                THEN Some(<< <<plugin_fqcn, Val(deprecation)>> >>) ELSE None,
            FALSE, FALSE,
            IF self THEN Some(CircularError) ELSE None,
            deprecation, tombstone)

----------------------------------------------------------------------------
(* Resolver: _complete_redirect *)

\* dict.get on the catalog's nested dicts
GetTypeMap(rd, coll, plugin_type) ==
    IF plugin_type \in DOMAIN rd[coll].plugin_data
    THEN Some(rd[coll].plugin_data[plugin_type]) ELSE None

GetPlugin(prd, name) ==
    IF ~IsNone(prd) /\ DOMAIN Val(prd) # {} /\ name \in DOMAIN Val(prd)
    THEN Some(Val(prd)[name]) ELSE None

\* WriteOwner that leaves the owner's dict as it is
WriteOwnerSkipped(rd, coll, plugin_type, name, new_plugin_data) == rd

\* WriteOwner that writes the record under every plugin type of the
\* collection that has a plugin of that name
WriteOwnerAllTypes(rd, coll, plugin_type, name, new_plugin_data) ==
    [rd EXCEPT ![coll].plugin_data =
        [t \in DOMAIN rd[coll].plugin_data |->
            [n \in DOMAIN rd[coll].plugin_data[t] |->
                IF n = name THEN new_plugin_data ELSE rd[coll].plugin_data[t][n]]]]

\* plugin_owner[plugin_plugin_name] = new_plugin_data, where the owner is the
\* dict routing_data[coll].plugin_data[plugin_type]
WriteOwner(rd, coll, plugin_type, name, new_plugin_data) ==
    [rd EXCEPT ![coll].plugin_data[plugin_type][name] = new_plugin_data]

\* one element of redirection_list; owner is None or the collection whose
\* plugin-name dict (for the walk's plugin type) holds the element
Elt(fqcn, coll, name, pd, owner) ==
    [fqcn |-> fqcn, coll |-> coll, name |-> name, pd |-> pd, owner |-> owner]

\* StartIndex that compares the plugin name (elt[2]) instead of the FQCN
StartIndexByName(redirection_list, next_name) ==
    LET hits == {i \in 1..Len(redirection_list) : redirection_list[i].name = next_name}
    IN  IF hits = {} THEN 0 ELSE CHOOSE i \in hits : \A j \in hits : i <= j

\* next(index for index, elt in enumerate(redirection_list) if elt[0] == next_name),
\* 1-based; 0 stands for StopIteration
StartIndex(redirection_list, next_name) ==
    LET hits == {i \in 1..Len(redirection_list) : redirection_list[i].fqcn = next_name}
    IN  IF hits = {} THEN 0 ELSE CHOOSE i \in hits : \A j \in hits : i <= j

\* redirect_deprecations_w_index: (index, (fqcn, deprecation)) for the loop's
\* elements with a deprecation; index is 0-based as in the source
DeprecationsWithIndex(loop) ==
    LET idxs == SelectSeq([i \in 1..Len(loop) |-> i],
                          LAMBDA i : /\ ~IsNone(loop[i].pd)
                                     /\ ~IsNone(Val(loop[i].pd).deprecation))
    IN  [k \in 1..Len(idxs) |->
            <<idxs[k] - 1, <<loop[idxs[k]].fqcn, Val(Val(loop[idxs[k]].pd).deprecation)>> >>]

\* RotateDeprecations without the rotation
RotateDeprecationsNot(dwi, index) == [k \in 1..Len(dwi) |-> dwi[k][2]]

\* tuple(elt for idx, elt in redirect_deprecations_w_index if idx >= index)
\*   + tuple(elt for idx, elt in redirect_deprecations_w_index if idx < index)
RotateDeprecations(dwi, index) ==
    LET after == SelectSeq(dwi, LAMBDA e : e[1] >= index)
        before == SelectSeq(dwi, LAMBDA e : e[1] < index)
        both == after \o before
    IN  [k \in 1..Len(both) |-> both[k][2]]

\* "x or None" for a tuple
OrNone(t) == IF t = << >> THEN None ELSE Some(t)

\* NextRotation that leaves the chain as it is
NextRotationKeep(redirect_chain) == redirect_chain

\* redirect_chain = redirect_chain[1:] at the end of an iteration: the chain
\* is rotated by one for the cycle's next element
NextRotation(redirect_chain) == Tail(redirect_chain)

\* LinearPrefix that keeps the cycle's elements in the list
LinearPrefixWhole(redirection_list, start_index) == redirection_list

\* redirection_list = redirection_list[:start_index] (start_index 1-based
\* here): the elements before the cycle, left to the loop over the prefix
LinearPrefix(redirection_list, start_index) ==
    SubSeq(redirection_list, 1, start_index - 1)

\* PrependChain that adds the name at the end
PrependChainAtEnd(plugin_fqcn, redirect_chain) ==
    Some((IF IsNone(redirect_chain) THEN << >> ELSE Val(redirect_chain)) \o <<plugin_fqcn>>)

\* redirect_chain = (plugin_fqcn,) + (redirect_chain or ())
PrependChain(plugin_fqcn, redirect_chain) ==
    Some(<<plugin_fqcn>> \o (IF IsNone(redirect_chain) THEN << >> ELSE Val(redirect_chain)))

\* a rewritten record without the plugin's action plugin
KeptActionPluginDropped(plugin_plugin_data) == None

\* action_plugin=plugin_plugin_data.action_plugin of every rewritten record
KeptActionPlugin(plugin_plugin_data) == plugin_plugin_data.action_plugin

\* the for loop over the cycle's elements (lines 387-426); index is 0-based;
\* st carries rd, plugin_data and the rotating redirect_chain
RECURSIVE CycleLoop(_, _, _, _, _, _)
CycleLoop(st, loop, dwi, index, plugin_type, fqcn) ==
    IF index >= Len(loop) THEN st
    ELSE
    LET e == loop[index + 1]
        chain1 == Append(st.redirect_chain, e.fqcn)
        new_plugin_data ==
            PluginRouting(KeptActionPlugin(Val(e.pd)), Ellipsis, Some(chain1),
                          OrNone(RotateDeprecations(dwi, index)),
                          FALSE, FALSE, Some(CircularError),
                          Val(e.pd).deprecation, Val(e.pd).tombstone)
        rd1 == IF ~IsNone(e.pd) /\ ~IsNone(e.owner)
               THEN WriteOwner(st.rd, Val(e.owner), plugin_type, e.name, new_plugin_data)
               ELSE st.rd
        pd1 == IF ~IsNone(e.pd) /\ e.fqcn = fqcn THEN new_plugin_data
               ELSE st.plugin_data
    IN  CycleLoop([rd |-> rd1, plugin_data |-> pd1, redirect_chain |-> NextRotation(chain1)],
                  loop, dwi, index + 1, plugin_type, fqcn)

\* ReusedIsLoop that never takes the reused record for a cycle
ReusedIsLoopNever(pd) == FALSE

\* is_loop = pd.redirect is ...
ReusedIsLoop(pd) == pd.redirect.kind = "ellipsis"

\* WalkResult that appends the tombstoned target to the path
WalkResultTargetAppended(rd, pdata, rlist, next_name, chain, deps, tomb, dead, err, is_loop, exc) ==
    [rd |-> rd, plugin_data |-> pdata,
     redirection_list |-> IF tomb /\ IsNone(chain)
                          THEN Append(rlist, Elt(next_name, << >>, << >>, None, None))
                          ELSE rlist,
     next_name |-> next_name, redirect_chain |-> chain, redirect_deprecations |-> deps,
     redirect_tombstone |-> tomb, redirect_dead_end |-> dead, redirect_error |-> err,
     is_loop |-> is_loop, raised |-> exc]

\* WalkResult that never sets redirect_dead_end
WalkResultDeadEndLost(rd, pdata, rlist, next_name, chain, deps, tomb, dead, err, is_loop, exc) ==
    [rd |-> rd, plugin_data |-> pdata, redirection_list |-> rlist, next_name |-> next_name,
     redirect_chain |-> chain, redirect_deprecations |-> deps, redirect_tombstone |-> tomb,
     redirect_dead_end |-> FALSE, redirect_error |-> err, is_loop |-> is_loop, raised |-> exc]

\* WalkResult that never sets redirect_tombstone
WalkResultTombstoneLost(rd, pdata, rlist, next_name, chain, deps, tomb, dead, err, is_loop, exc) ==
    [rd |-> rd, plugin_data |-> pdata, redirection_list |-> rlist, next_name |-> next_name,
     redirect_chain |-> chain, redirect_deprecations |-> deps, redirect_tombstone |-> FALSE,
     redirect_dead_end |-> dead, redirect_error |-> err, is_loop |-> is_loop, raised |-> exc]

\* result of the while loop: what the code holds at line 473
WalkResult(rd, pdata, rlist, next_name, chain, deps, tomb, dead, err, is_loop, exc) ==
    [rd |-> rd, plugin_data |-> pdata, redirection_list |-> rlist,
     next_name |-> next_name, redirect_chain |-> chain, redirect_deprecations |-> deps,
     redirect_tombstone |-> tomb, redirect_dead_end |-> dead, redirect_error |-> err,
     is_loop |-> is_loop, raised |-> exc]

\* the while True loop (lines 370-472)
RECURSIVE Walk(_, _, _, _, _, _, _)
Walk(rd, plugin_data, plugin_type, fqcn, found_names, redirection_list, next_name) ==
    IF next_name \in found_names THEN
        \* We found a cycle!
        LET start_index == StartIndex(redirection_list, next_name)
        IN  IF start_index = 0
            THEN WalkResult(rd, plugin_data, redirection_list, next_name, None, None,
                            FALSE, FALSE, None, FALSE, TRUE)
            ELSE
            LET loop == DropFirst(redirection_list, start_index - 1)
                dwi == DeprecationsWithIndex(loop)
                st == CycleLoop([rd |-> rd, plugin_data |-> plugin_data,
                                 redirect_chain |-> [i \in 1..Len(loop) |-> loop[i].fqcn]],
                                loop, dwi, 0, plugin_type, fqcn)
            IN  WalkResult(st.rd, st.plugin_data,
                           LinearPrefix(redirection_list, start_index), next_name,
                           Some(Append(st.redirect_chain, next_name)),
                           OrNone([k \in 1..Len(dwi) |-> dwi[k][2]]),
                           FALSE, FALSE, Some(CircularError), TRUE, FALSE)
    ELSE
    LET parts == Split2(next_name)
    IN  IF Len(parts) < 3 THEN
            WalkResult(rd, plugin_data, redirection_list, next_name, None, None,
                       FALSE, TRUE, Some(NonFqcnError(next_name)), FALSE, FALSE)
        ELSE
        LET next_coll == Dot(parts[1], parts[2])
            next_pn == parts[3]
        IN  IF next_coll \notin DOMAIN rd THEN
                WalkResult(rd, plugin_data,
                           Append(redirection_list,
                                  Elt(next_name, next_coll, next_pn, None, None)),
                           next_name, None, None, FALSE, TRUE,
                           Some(UnknownCollectionError(next_coll)), FALSE, FALSE)
            ELSE
            LET prd == GetTypeMap(rd, next_coll, plugin_type)
                pd == GetPlugin(prd, next_pn)
            IN  IF ~IsNone(pd) /\ ~IsNone(Val(pd).tombstone) THEN
                    WalkResult(rd, plugin_data, redirection_list, next_name, None,
                               Some(<< <<next_name, Val(Val(pd).tombstone)>> >>),
                               TRUE, FALSE, None, FALSE, FALSE)
                ELSE IF IsNone(pd) \/ Val(pd).redirect.kind = "none" THEN
                    WalkResult(rd, plugin_data,
                               Append(redirection_list,
                                      Elt(next_name, next_coll, next_pn, pd, None)),
                               next_name, None, None, FALSE, FALSE, None, FALSE, FALSE)
                ELSE IF \/ ~IsNone(Val(pd).redirect_error)
                        \/ Val(pd).redirect_tombstone
                        \/ Val(pd).redirect_dead_end THEN
                    WalkResult(rd, plugin_data, redirection_list, next_name,
                               Val(pd).redirect_chain, Val(pd).redirect_deprecations,
                               Val(pd).redirect_tombstone, Val(pd).redirect_dead_end,
                               Val(pd).redirect_error,
                               ReusedIsLoop(Val(pd)), FALSE)
                ELSE IF Val(pd).redirect.kind = "ellipsis" THEN
                    \* raise AssertionError("Bad internal state: ...")
                    WalkResult(rd, plugin_data, redirection_list, next_name, None, None,
                               FALSE, FALSE, None, FALSE, TRUE)
                ELSE
                    Walk(rd, plugin_data, plugin_type, fqcn,
                         found_names \cup {next_name},
                         Append(redirection_list,
                                Elt(next_name, next_coll, next_pn, pd, Some(next_coll))),
                         Val(pd).redirect.name)

\* the for loop over reversed(redirection_list) (lines 473-502); k is the
\* 1-based position of the element handled next, going down to 1
RECURSIVE PrefixRewrite(_, _, _, _, _)
PrefixRewrite(w, k, plugin_type, fqcn, redirect_field) ==
    IF k = 0 THEN w
    ELSE
    LET e == w.redirection_list[k]
        chain1 == PrependChain(e.fqcn, w.redirect_chain)
        deps1 == IF ~IsNone(e.pd) /\ ~IsNone(Val(e.pd).deprecation)
                 THEN Some(<< <<e.fqcn, Val(Val(e.pd).deprecation)>> >>
                           \o (IF IsNone(w.redirect_deprecations) THEN << >>
                               ELSE Val(w.redirect_deprecations)))
                 ELSE w.redirect_deprecations
        new_plugin_data ==
            PluginRouting(KeptActionPlugin(Val(e.pd)), redirect_field, chain1, deps1,
                          w.redirect_tombstone, w.redirect_dead_end, w.redirect_error,
                          Val(e.pd).deprecation, Val(e.pd).tombstone)
        rd1 == IF ~IsNone(e.pd) /\ ~IsNone(e.owner)
               THEN WriteOwner(w.rd, Val(e.owner), plugin_type, e.name, new_plugin_data)
               ELSE w.rd
        pd1 == IF ~IsNone(e.pd) /\ e.fqcn = fqcn THEN new_plugin_data
               ELSE w.plugin_data
    IN  PrefixRewrite([w EXCEPT !.rd = rd1, !.plugin_data = pd1,
                                !.redirect_chain = chain1,
                                !.redirect_deprecations = deps1],
                      k - 1, plugin_type, fqcn, redirect_field)

\* InitialFoundNames that forgets to add the plugin's own FQCN
InitialFoundNamesEmpty(fqcn) == {}

\* found_names: set[str] = set(); found_names.add(fqcn)
InitialFoundNames(fqcn) == {fqcn}

\* AlreadyDone without the test of redirect_chain
AlreadyDoneNoChainTest(plugin_data) ==
    plugin_data.redirect.kind \in {"none", "ellipsis"}

\* plugin_data.redirect in (None, ...) or plugin_data.redirect_chain is not None
AlreadyDone(plugin_data) ==
    \/ plugin_data.redirect.kind \in {"none", "ellipsis"}
    \/ ~IsNone(plugin_data.redirect_chain)

\* RedirectField that ignores is_loop
RedirectFieldNoLoop(is_loop, next_name) == RedirectStr(next_name)

\* redirect=... if is_loop else next_name
RedirectField(is_loop, next_name) ==
    IF is_loop THEN Ellipsis ELSE RedirectStr(next_name)

\* _complete_redirect: the catalog as the call leaves it (rd), the record it
\* returns (plugin_data) and whether it raised
_complete_redirect(rd, plugin_data, collection_name, plugin_type, plugin_name) ==
    IF AlreadyDone(plugin_data)
    THEN [rd |-> rd, plugin_data |-> plugin_data, raised |-> FALSE]
    ELSE
    LET fqcn == Dot(collection_name, plugin_name)
        w == Walk(rd, plugin_data, plugin_type, fqcn, InitialFoundNames(fqcn),
                  <<Elt(fqcn, collection_name, plugin_name, Some(plugin_data), None)>>,
                  plugin_data.redirect.name)
    IN  IF w.raised THEN [rd |-> rd, plugin_data |-> plugin_data, raised |-> TRUE]
        ELSE
        LET r == PrefixRewrite(w, Len(w.redirection_list), plugin_type, fqcn,
                               RedirectField(w.is_loop, w.next_name))
        IN  [rd |-> r.rd, plugin_data |-> r.plugin_data, raised |-> FALSE]

----------------------------------------------------------------------------
(* Metadata loader: one document *)

\* _get_real_plugin_type_name restricted to the labels the model uses;
\* "" stands for None (the label is ignored)
_get_real_plugin_type_name(label) ==
    IF label = "modules" THEN "module"
    ELSE IF label \in {"module", "lookup"} THEN label
    ELSE ""

\* the for loop of _load_routing_information over plugin_routing.items();
\* entries is the mapping in document order: <<label, names, docs>> where names
\* is the sequence of plugin names and docs maps each name to its PluginDoc
RECURSIVE LoadEntries(_, _, _)
LoadEntries(entries, own_name, result) ==
    IF entries = << >> THEN result
    ELSE
    LET label == entries[1][1]
        names == entries[1][2]
        docs == entries[1][3]
        real_plugin_type == _get_real_plugin_type_name(label)
        real_plugin_data ==
            [n \in Range(names) |->
                _parse_plugin_data(docs[n], own_name, real_plugin_type, n)]
        result1 ==
            IF real_plugin_type = "" \/ names = << >> THEN result
            ELSE [t \in DOMAIN result \cup {real_plugin_type} |->
                     IF t = real_plugin_type THEN real_plugin_data ELSE result[t]]
    IN  LoadEntries(Tail(entries), own_name, result1)

_load_routing_information(entries, own_name) ==
    LoadEntries(entries, own_name, [t \in {} |-> << >>])

\* load_routing_information wraps the dict in a CollectionRouting
CollectionRouting(plugin_data) == [plugin_data |-> plugin_data]

----------------------------------------------------------------------------
(* The catalogs of the model *)

FooBar == <<"foo", "bar">>
BarBaz == <<"bar", "baz">>
Collections == {FooBar, BarBaz}

\* plugin names each collection's meta/runtime.yml lists under "modules"
ModuleNames(coll) == IF coll = FooBar THEN << <<"m1">>, <<"m2">> >> ELSE << <<"m3">> >>

Plugins == UNION {{<<c, n>> : n \in Range(ModuleNames(c))} : c \in Collections}

\* redirect targets a document may name: the plugins of the catalog, a plugin
\* no document lists, a plugin of a collection that is not installed, and a
\* string that is no FQCN
MissingPlugin == <<"foo", "bar", "gone">>
OutsidePlugin == <<"outside", "here", "meh">>
NonFqcn == <<"this-is-not-a-fqcn">>
RedirectTargets ==
    {Dot(p[1], p[2]) : p \in Plugins} \cup {MissingPlugin, OutsidePlugin, NonFqcn}

\* the deprecation / tombstone text of a plugin's document entry
WarningText(kind, name) == <<kind, name>>

\* the document entry of plugin p: its redirect (an Optional), and whether
\* it has a deprecation and a tombstone
DocOf(p, r, d, ts) ==
    PluginDoc(r,
              IF d THEN Some(RemovalData(WarningText("deprecated", p[2]))) ELSE None,
              IF ts THEN Some(RemovalData(WarningText("removed", p[2]))) ELSE None,
              None)

RedirectChoices == {None} \cup {Some(x) : x \in RedirectTargets}

\* collect_routing_information over documents that load without error
CollectRoutingInformation(docs) ==
    [c \in Collections |->
        CollectionRouting(
            _load_routing_information(<< <<"modules", ModuleNames(c), [n \in Range(ModuleNames(c)) |-> docs[<<c, n>>]]>> >>, c))]

----------------------------------------------------------------------------
(* The resolver's public operations, one step per loop iteration *)

Init ==
    /\ \E r \in [Plugins -> RedirectChoices], d \in [Plugins -> BOOLEAN],
          ts \in [Plugins -> BOOLEAN] :
          /\ Cardinality({p \in Plugins : d[p]}) <= MaxDeprecated
          /\ Cardinality({p \in Plugins : ts[p]}) <= MaxTombstoned
          /\ routing_data =
              CollectRoutingInformation([p \in Plugins |-> DocOf(p, r[p], d[p], ts[p])])
    /\ loaded = routing_data
    /\ pc = "idle"
    /\ colls_todo = {}
    /\ cur_coll = None
    /\ types_todo = {}
    /\ cur_type = None
    /\ names_todo = {}
    /\ resolved = FALSE
    /\ raised = FALSE
    /\ LoaderUnused /\ CollectUnused /\ BuildUnused /\ CliUnused /\ DirUnused

\* complete_redirects is called: its loop over routing_data starts
CallCompleteRedirects ==
    /\ pc = "idle" /\ ~raised
    /\ pc' = "all"
    /\ colls_todo' = DOMAIN routing_data
    /\ UNCHANGED <<routing_data, loaded, cur_coll, types_todo, cur_type, names_todo,
                   resolved, raised>>
    /\ UNCHANGED <<loader_vars, collect_vars, build_vars, cli_vars, dir_vars>>

\* complete_redirects_for_collection is called directly; a collection that is
\* not in the catalog makes it return at once
CallCompleteRedirectsForCollection(collection_name) ==
    /\ pc = "idle" /\ ~raised
    /\ IF collection_name \in DOMAIN routing_data
       THEN /\ pc' = "one"
            /\ cur_coll' = Some(collection_name)
            /\ types_todo' = DOMAIN routing_data[collection_name].plugin_data
       ELSE UNCHANGED <<pc, cur_coll, types_todo>>
    /\ UNCHANGED <<routing_data, loaded, colls_todo, cur_type, names_todo, resolved,
                   raised>>
    /\ UNCHANGED <<loader_vars, collect_vars, build_vars, cli_vars, dir_vars>>

\* the loops of complete_redirects_for_collection entering the plugin types of
\* collection c that are left in types and have plugins: the inner loop starts
\* on a snapshot of the type's plugin names
EnterType(colls, c, types) ==
    {[colls |-> colls, coll |-> Some(c), types |-> types \ {t}, type |-> Some(t),
      names |-> DOMAIN routing_data[c].plugin_data[t]] :
        t \in {u \in types : DOMAIN routing_data[c].plugin_data[u] # {}}}

\* the positions of the three nested loops at their next inner iteration: the
\* running inner loop if it has names left, else the next plugin type of the
\* current collection, else (complete_redirects) the next collection
NextIteration ==
    IF names_todo # {}
    THEN {[colls |-> colls_todo, coll |-> cur_coll, types |-> types_todo,
           type |-> cur_type, names |-> names_todo]}
    ELSE LET here == IF IsNone(cur_coll) THEN {}
                     ELSE EnterType(colls_todo, Val(cur_coll), types_todo)
         IN  IF here # {} THEN here
             ELSE UNION {EnterType(colls_todo \ {c}, c, DOMAIN routing_data[c].plugin_data) :
                            c \in colls_todo}

\* one iteration of the inner loop:
\* plugin_routing_data[plugin_name] = _complete_redirect(...)
VisitPlugin ==
    /\ pc \in {"all", "one"}
    /\ \E at \in NextIteration : \E plugin_name \in at.names :
          LET c == Val(at.coll)
              t == Val(at.type)
              r == _complete_redirect(routing_data,
                                      routing_data[c].plugin_data[t][plugin_name],
                                      c, t, plugin_name)
          IN  /\ colls_todo' = at.colls
              /\ cur_coll' = at.coll
              /\ types_todo' = at.types
              /\ cur_type' = at.type
              /\ names_todo' = at.names \ {plugin_name}
              /\ raised' = r.raised
              /\ routing_data' =
                    IF r.raised THEN r.rd
                    ELSE [r.rd EXCEPT ![c].plugin_data[t][plugin_name] = r.plugin_data]
              /\ pc' = IF r.raised THEN "idle" ELSE pc
    /\ UNCHANGED <<loaded, resolved>>
    /\ UNCHANGED <<loader_vars, collect_vars, build_vars, cli_vars, dir_vars>>

\* the loops are exhausted and the running public call returns
Return ==
    /\ pc \in {"all", "one"} /\ NextIteration = {}
    /\ pc' = "idle"
    /\ colls_todo' = {}
    /\ cur_coll' = None
    /\ types_todo' = {}
    /\ cur_type' = None
    /\ resolved' = (resolved \/ pc = "all")
    /\ UNCHANGED <<routing_data, loaded, names_todo, raised>>
    /\ UNCHANGED <<loader_vars, collect_vars, build_vars, cli_vars, dir_vars>>

\* collection names a caller may pass: the catalog's and one it does not hold
CallableCollections == Collections \cup {<<"outside", "here">>}

Next ==
    \/ CallCompleteRedirects
    \/ \E c \in CallableCollections : CallCompleteRedirectsForCollection(c)
    \/ VisitPlugin
    \/ Return

Spec == Init /\ [][Next]_vars

----------------------------------------------------------------------------
(* Vocabulary of the properties *)

\* the plugins of a catalog as (collection, plugin type, plugin name)
Keys(rd) ==
    UNION {UNION {{<<c, t, n>> : n \in DOMAIN rd[c].plugin_data[t]} :
                     t \in DOMAIN rd[c].plugin_data} : c \in DOMAIN rd}

Rec(rd, k) == rd[k[1]].plugin_data[k[2]][k[3]]
Fqcn(k) == Dot(k[1], k[3])

\* the plugin of type t an FQCN names in the catalog (an Optional key)
KeyOf(rd, t, name) ==
    IF Len(name) < 3 THEN None
    ELSE LET c == Dot(Split2(name)[1], Split2(name)[2])
             n == Split2(name)[3]
         IN  IF /\ c \in DOMAIN rd /\ t \in DOMAIN rd[c].plugin_data
                /\ n \in DOMAIN rd[c].plugin_data[t]
             THEN Some(<<c, t, n>>) ELSE None

\* the redirect a plugin's document named: the loader keeps it in the redirect
\* field, except for a redirect to the plugin itself, which it replaces by the
\* ellipsis
DocRedirect(ld, k) ==
    IF Rec(ld, k).redirect.kind = "str" THEN Some(Rec(ld, k).redirect.name)
    ELSE IF Rec(ld, k).redirect.kind = "ellipsis" THEN Some(Fqcn(k))
    ELSE None

\* the next hop after the FQCN name when following the loaded redirects
NextHop(ld, t, name) ==
    IF IsNone(KeyOf(ld, t, name)) THEN None ELSE DocRedirect(ld, Val(KeyOf(ld, t, name)))

\* the FQCNs met when following the loaded redirect fields hop by hop from
\* name, up to the first name without a next hop or the first name met twice
\* (which is not repeated in the result)
RECURSIVE FollowLoaded(_, _, _, _)
FollowLoaded(ld, t, name, seen) ==
    IF IsNone(NextHop(ld, t, name)) \/ Val(NextHop(ld, t, name)) \in seen \cup {name}
    THEN <<name>>
    ELSE <<name>> \o FollowLoaded(ld, t, Val(NextHop(ld, t, name)), seen \cup {name})

OrigPath(ld, k) == FollowLoaded(ld, k[2], Fqcn(k), {})

\* the name the path of k runs into again, if following the redirects never ends
CycleEntry(ld, k) ==
    LET path == OrigPath(ld, k)
    IN  NextHop(ld, k[2], path[Len(path)])

LeadsIntoCycle(ld, k) == ~IsNone(CycleEntry(ld, k))
OnCycle(ld, k) == LeadsIntoCycle(ld, k) /\ Val(CycleEntry(ld, k)) = Fqcn(k)

\* (fqcn, deprecation) of the plugins named by a sequence of FQCNs that have a
\* deprecation of their own, in the sequence's order
RECURSIVE OwnDeprecations(_, _, _)
OwnDeprecations(ld, t, names) ==
    IF names = << >> THEN << >>
    ELSE
    LET k == KeyOf(ld, t, names[1])
    IN  (IF ~IsNone(k) /\ ~IsNone(Rec(ld, Val(k)).deprecation)
         THEN << <<names[1], Val(Rec(ld, Val(k)).deprecation)>> >> ELSE << >>)
        \o OwnDeprecations(ld, t, Tail(names))

\* some plugin named by the sequence has a tombstone
AnyTombstoned(ld, t, names) ==
    \E i \in 1..Len(names) :
        /\ ~IsNone(KeyOf(ld, t, names[i]))
        /\ ~IsNone(Rec(ld, Val(KeyOf(ld, t, names[i]))).tombstone)

\* outcome classes of a record (section 4.4)
IsCycle(r) == r.redirect.kind = "ellipsis"
IsDeadEnd(r) == r.redirect_dead_end
IsTombstone(r) == r.redirect_tombstone
IsClean(r) ==
    /\ r.redirect.kind = "str" /\ IsNone(r.redirect_error)
    /\ ~r.redirect_tombstone /\ ~r.redirect_dead_end

\* no call is running and a complete_redirects call has returned, whatever
\* direct complete_redirects_for_collection calls came before it and whatever
\* calls after it
Resolved == pc = "idle" /\ resolved /\ ~raised

\* the plugins whose document named a redirect
Redirecting(ld) == {k \in Keys(ld) : ~IsNone(DocRedirect(ld, k))}

----------------------------------------------------------------------------
(* Reference run: complete_redirects with the dicts iterated in one fixed  *)
(* order, as a function of the catalog                                     *)

VisitOne(rd, c, t, n) ==
    LET r == _complete_redirect(rd, rd[c].plugin_data[t][n], c, t, n)
    IN  [r.rd EXCEPT ![c].plugin_data[t][n] = r.plugin_data]

RECURSIVE VisitNames(_, _, _, _)
VisitNames(rd, c, t, names) ==
    IF names = {} THEN rd
    ELSE LET n == CHOOSE x \in names : TRUE
         IN  VisitNames(VisitOne(rd, c, t, n), c, t, names \ {n})

RECURSIVE VisitTypes(_, _, _)
VisitTypes(rd, c, types) ==
    IF types = {} THEN rd
    ELSE LET t == CHOOSE x \in types : TRUE
         IN  VisitTypes(VisitNames(rd, c, t, DOMAIN rd[c].plugin_data[t]), c,
                        types \ {t})

RECURSIVE VisitCollections(_, _)
VisitCollections(rd, colls) ==
    IF colls = {} THEN rd
    ELSE LET c == CHOOSE x \in colls : TRUE
         IN  VisitCollections(VisitTypes(rd, c, DOMAIN rd[c].plugin_data), colls \ {c})

ReferenceResult(ld) == VisitCollections(ld, DOMAIN ld)

Last(s) == s[Len(s)]
Count(x, s) == Cardinality({i \in 1..Len(s) : s[i] = x})

----------------------------------------------------------------------------
(* Properties *)

\* C1: the catalog complete_redirects leaves is the same for every order in
\* which collections and plugin names are visited: every run from a loaded
\* catalog ends with the catalog of the reference run.
C1_OrderIndependent ==
    Resolved => routing_data = ReferenceResult(loaded)

\* C2: after complete_redirects, the redirect_chain of a plugin with a clean
\* outcome is exactly the path of the loaded redirect fields, hop by hop, from
\* the plugin to the first plugin without a redirect.
C2_CleanChainIsLoadedPath ==
    Resolved =>
        \A k \in Redirecting(loaded) :
            IsClean(Rec(routing_data, k)) =>
                Rec(routing_data, k).redirect_chain = Some(OrigPath(loaded, k))

\* C3: after complete_redirects, the redirect_deprecations of a node of a
\* resolved linear (clean) chain are the (fqcn, deprecation) pairs of the nodes
\* on the remaining loaded path that have a deprecation, in path order.
C3_DeprecationFaithfulness ==
    Resolved =>
        \A k \in Redirecting(loaded) :
            IsClean(Rec(routing_data, k)) =>
                Rec(routing_data, k).redirect_deprecations =
                    OrNone(OwnDeprecations(loaded, k[2], OrigPath(loaded, k)))

\* C4: after complete_redirects, a redirect that is a string never names an
\* intermediate plugin: a plugin of the catalog that is not tombstoned and has
\* a redirect of its own.
C4_RedirectNamesTheEnd ==
    Resolved =>
        \A k \in Keys(routing_data) :
            LET r == Rec(routing_data, k)
                q == KeyOf(loaded, k[2], r.redirect.name)
            IN  r.redirect.kind = "str" =>
                    ~(/\ ~IsNone(q)
                      /\ IsNone(Rec(loaded, Val(q)).tombstone)
                      /\ ~IsNone(DocRedirect(loaded, Val(q))))

\* C5: complete_redirects is idempotent: once it has run on the catalog, no
\* later resolver step changes any record.
C5_Idempotent ==
    [][resolved => routing_data' = routing_data]_vars

\* a later complete_redirects run has gone through all its iterations on a
\* catalog whose first run had a chain of redirects to resolve
C5_Witness ==
    /\ resolved /\ pc = "all" /\ NextIteration = {}
    /\ \E k \in Keys(loaded) :
          Rec(loaded, k).redirect.kind = "str" /\ Len(OrigPath(loaded, k)) >= 3

\* C6 as claimed: after complete_redirects, a plugin whose document named a
\* redirect either has a string redirect and a redirect_chain that starts with
\* its own FQCN (and, for a clean outcome, ends with the redirect), or is a
\* cycle whose chain holds its own FQCN twice.
C6_ChainEndsAtRedirectOrOwnTwice ==
    Resolved =>
        \A k \in Redirecting(loaded) :
            LET r == Rec(routing_data, k)
                chain == Val(r.redirect_chain)
            IN  /\ ~IsNone(r.redirect_chain)
                /\ \/ /\ r.redirect.kind = "str"
                      /\ chain[1] = Fqcn(k)
                      /\ IsClean(r) => Last(chain) = r.redirect.name
                   \/ /\ IsCycle(r)
                      /\ Count(Fqcn(k), chain) = 2

\* C6 as amended: after complete_redirects, the redirect_chain of a plugin
\* whose document named a redirect starts with the plugin's own FQCN; a clean
\* outcome's chain ends with the redirect; a cycle outcome's chain ends with an
\* FQCN that occurs in it twice, the plugin's own exactly when the plugin is a
\* member of the cycle.
C6_ChainStartsAtOwn ==
    Resolved =>
        \A k \in Redirecting(loaded) :
            LET r == Rec(routing_data, k)
                chain == Val(r.redirect_chain)
            IN  /\ ~IsNone(r.redirect_chain)
                /\ chain[1] = Fqcn(k)
                /\ r.redirect.kind \in {"str", "ellipsis"}
                /\ IsClean(r) => Last(chain) = r.redirect.name
                /\ IsCycle(r) =>
                      /\ Count(Last(chain), chain) = 2
                      /\ Count(Fqcn(k), chain) = IF Last(chain) = Fqcn(k) THEN 2 ELSE 1

\* a plugin that leads into a cycle without being on it has been resolved,
\* and so has a plugin whose chain ends at a tombstone
C6_Witness ==
    /\ Resolved
    /\ \E k \in Redirecting(loaded) :
          /\ IsCycle(Rec(routing_data, k))
          /\ Last(Val(Rec(routing_data, k).redirect_chain)) # Fqcn(k)
    /\ \E k \in Redirecting(loaded) : IsTombstone(Rec(routing_data, k))

\* C7: in every state, for every record, redirect_error is set iff the record
\* is a cycle or a dead end, and at most one of the outcome classes cycle,
\* dead end and tombstone holds.
C7_OutcomeClasses ==
    \A k \in Keys(routing_data) :
        LET r == Rec(routing_data, k)
        IN  /\ ~IsNone(r.redirect_error) <=> (IsCycle(r) \/ IsDeadEnd(r))
            /\ ~(IsCycle(r) /\ IsDeadEnd(r))
            /\ ~(IsCycle(r) /\ IsTombstone(r))
            /\ ~(IsDeadEnd(r) /\ IsTombstone(r))

\* a resolved catalog holds a cycle, a dead end and a tombstone outcome
C7_Witness ==
    /\ resolved
    /\ \E k \in Keys(routing_data) : IsCycle(Rec(routing_data, k))
    /\ \E k \in Keys(routing_data) : IsDeadEnd(Rec(routing_data, k))
    /\ \E k \in Keys(routing_data) : IsTombstone(Rec(routing_data, k))

\* C8: after complete_redirects, every member of a redirect cycle of k members
\* none of which is tombstoned is a cycle record: ellipsis, "Detected circular
\* redirect", both flags false, and a chain of k + 1 names that lists the cycle
\* in redirect order from the member to the member again.
C8_CycleMembers ==
    Resolved =>
        \A k \in Keys(loaded) :
            (OnCycle(loaded, k) /\ ~AnyTombstoned(loaded, k[2], OrigPath(loaded, k))) =>
                LET r == Rec(routing_data, k)
                IN  /\ r.redirect = Ellipsis
                    /\ r.redirect_error = Some(CircularError)
                    /\ ~r.redirect_tombstone /\ ~r.redirect_dead_end
                    /\ r.redirect_chain = Some(Append(OrigPath(loaded, k), Fqcn(k)))
                    /\ Len(Val(r.redirect_chain)) = Len(OrigPath(loaded, k)) + 1

\* a cycle of three members, none tombstoned, has been resolved
C8_Witness ==
    /\ Resolved
    /\ \E k \in Keys(loaded) :
          /\ OnCycle(loaded, k) /\ Len(OrigPath(loaded, k)) = 3
          /\ ~AnyTombstoned(loaded, k[2], OrigPath(loaded, k))

\* C9 as claimed: after complete_redirects, the redirect_deprecations of every
\* member of a redirect cycle are the own deprecations of the cycle's members
\* in the order met when following the cycle from that member, None if there
\* are none.
C9_CycleDeprecations ==
    Resolved =>
        \A k \in Keys(loaded) :
            OnCycle(loaded, k) =>
                Rec(routing_data, k).redirect_deprecations =
                    OrNone(OwnDeprecations(loaded, k[2], OrigPath(loaded, k)))

\* C9 as amended: after complete_redirects, every member of a redirect cycle
\* none of whose members is tombstoned is a cycle record, and every member of a
\* redirect cycle that is a cycle record has as redirect_deprecations the own
\* deprecations of the cycle's members in the order met when following the
\* cycle from that member, None if there are none.
C9_CycleRecordDeprecations ==
    Resolved =>
        \A k \in Keys(loaded) :
            OnCycle(loaded, k) =>
                LET r == Rec(routing_data, k)
                    path == OrigPath(loaded, k)
                IN  /\ ~AnyTombstoned(loaded, k[2], path) => IsCycle(r)
                    /\ IsCycle(r) =>
                          r.redirect_deprecations = OrNone(OwnDeprecations(loaded, k[2], path))

\* a member without a deprecation of its own, in a cycle of three live members
\* two of which are deprecated, has been resolved
C9_Witness ==
    /\ Resolved
    /\ \E k \in Keys(loaded) :
          /\ OnCycle(loaded, k) /\ Len(OrigPath(loaded, k)) = 3
          /\ ~AnyTombstoned(loaded, k[2], OrigPath(loaded, k))
          /\ IsNone(Rec(loaded, k).deprecation)
          /\ Len(OwnDeprecations(loaded, k[2], OrigPath(loaded, k))) = 2

\* what C10 says of a plugin k that leads into a cycle: ellipsis, the circular
\* error, the chain "path to the entry point, rest of the cycle, entry point
\* again" and the own deprecations of that path
PrefixOfCycleOutcome(k) ==
    LET r == Rec(routing_data, k)
        path == OrigPath(loaded, k)
    IN  /\ r.redirect = Ellipsis
        /\ r.redirect_error = Some(CircularError)
        /\ r.redirect_chain = Some(Append(path, Val(CycleEntry(loaded, k))))
        /\ r.redirect_deprecations = OrNone(OwnDeprecations(loaded, k[2], path))

\* C10 as claimed: after complete_redirects, every plugin that is not on a
\* cycle but whose loaded redirect path leads into one has the outcome above,
\* whether the cycle was resolved before it or while resolving it.
C10_PrefixOfCycle ==
    Resolved =>
        \A k \in Keys(loaded) :
            (LeadsIntoCycle(loaded, k) /\ ~OnCycle(loaded, k)) => PrefixOfCycleOutcome(k)

\* C10 as amended: after complete_redirects, every plugin that is not on a
\* cycle but whose loaded redirect path leads into one is a cycle record when
\* no plugin the path reaches (the hops after the plugin and the cycle's
\* members) is tombstoned, and has the outcome above whenever it is a cycle
\* record, whether the cycle was resolved before it or while resolving it.
C10_PrefixCycleRecord ==
    Resolved =>
        \A k \in Keys(loaded) :
            (LeadsIntoCycle(loaded, k) /\ ~OnCycle(loaded, k)) =>
                /\ ~AnyTombstoned(loaded, k[2], Tail(OrigPath(loaded, k))) =>
                      IsCycle(Rec(routing_data, k))
                /\ IsCycle(Rec(routing_data, k)) => PrefixOfCycleOutcome(k)

\* a plugin leading through a second plugin into a cycle, with a deprecation on
\* the way, has been resolved
C10_Witness ==
    /\ Resolved
    /\ \E k \in Keys(loaded) :
          /\ LeadsIntoCycle(loaded, k) /\ ~OnCycle(loaded, k)
          /\ ~AnyTombstoned(loaded, k[2], Tail(OrigPath(loaded, k)))
          /\ Len(OrigPath(loaded, k)) = 3
          /\ OwnDeprecations(loaded, k[2], OrigPath(loaded, k)) # << >>

\* the names a walk from k meets when it follows the loaded redirects: the
\* path of k, and the entry point of the cycle once more if it runs into one
WalkNames(ld, k) ==
    OrigPath(ld, k) \o (IF LeadsIntoCycle(ld, k) THEN <<Val(CycleEntry(ld, k))>> ELSE << >>)

\* position in WalkNames of the first tombstoned plugin the walk from k
\* reaches (the start itself is not reached), 0 if there is none
FirstTombstone(ld, k) ==
    LET w == WalkNames(ld, k)
        hits == {i \in 2..Len(w) : AnyTombstoned(ld, k[2], <<w[i]>>)}
    IN  IF hits = {} THEN 0 ELSE CHOOSE i \in hits : \A j \in hits : i <= j

\* the plugin called name lies on a redirect cycle of two or more plugins (a
\* plugin that redirects to itself is a cycle record from the loader on and
\* is never the start of a walk)
OnWalkedCycle(ld, t, name) ==
    LET q == KeyOf(ld, t, name)
    IN  ~IsNone(q) /\ OnCycle(ld, Val(q)) /\ Len(OrigPath(ld, Val(q))) >= 2

\* the (fqcn, tombstone) entry of the tombstoned plugin called name
TombstoneEntry(ld, t, name) == <<name, Val(Rec(ld, Val(KeyOf(ld, t, name))).tombstone)>>

VisitedKey ==
    LET c == Val(cur_coll')
        t == Val(cur_type')
        before == IF names_todo # {} THEN names_todo
                  ELSE DOMAIN routing_data[c].plugin_data[t]
    IN  <<c, t, CHOOSE n \in before : n \notin names_todo'>>

\* the step is an iteration of the inner loop that did not raise
IsVisit == pc \in {"all", "one"} /\ pc' = pc

\* the walk _complete_redirect makes for plugin k of catalog rd
WalkFrom(rd, k) ==
    Walk(rd, Rec(rd, k), k[2], Fqcn(k), InitialFoundNames(Fqcn(k)),
         <<Elt(Fqcn(k), k[1], k[3], Some(Rec(rd, k)), None)>>, Rec(rd, k).redirect.name)

\* the walk w for plugin k of catalog rd ended at lines 446-451, at a target
\* that has a tombstone
EndsAtTombstone(rd, k, w) ==
    w.redirect_tombstone /\ AnyTombstoned(rd, k[2], <<w.next_name>>)

\* C12: a walk that ends at a tombstoned target T leaves the start and every
\* intermediate plugin of its path with redirect T, redirect_tombstone true,
\* redirect_error None and a chain that runs from the plugin to the last hop
\* before T and does not hold T.
C12_TombstoneTargetNotInChain ==
    [][IsVisit =>
        \A k \in {VisitedKey} :
            ~AlreadyDone(Rec(routing_data, k)) =>
            \A w \in {WalkFrom(routing_data, k)} :
                EndsAtTombstone(routing_data, k, w) =>
                \A path \in {[i \in 1..Len(w.redirection_list) |-> w.redirection_list[i].fqcn]} :
                \A i \in 1..Len(path) :
                    LET e == w.redirection_list[i]
                        r == routing_data'[e.coll].plugin_data[k[2]][e.name]
                    IN  /\ r.redirect = RedirectStr(w.next_name)
                        /\ r.redirect_tombstone /\ ~r.redirect_dead_end
                        /\ IsNone(r.redirect_error)
                        /\ r.redirect_chain = Some(SubSeq(path, i, Len(path)))
                        /\ \A j \in 1..Len(path) : path[j] # w.next_name
                        /\ NextHop(loaded, k[2], path[Len(path)]) = Some(w.next_name)
      ]_vars

\* a record holds the outcome of a walk that ended at a tombstoned target
\* after an intermediate plugin
C12_Witness ==
    \E k \in Keys(routing_data) :
        LET r == Rec(routing_data, k)
        IN  /\ IsNone(Rec(loaded, k).redirect_chain)
            /\ r.redirect_tombstone /\ r.redirect.kind = "str"
            /\ AnyTombstoned(loaded, k[2], <<r.redirect.name>>)
            /\ Len(Val(r.redirect_chain)) >= 2

\* C13: after complete_redirects, no redirect_chain holds the FQCN of a
\* tombstoned plugin at a position after the first (read in the claim's
\* favour: the plugin's own FQCN, with which the chain of a cycle record
\* closes, is not counted).
C13_NoTombstonedInsideChain ==
    Resolved =>
        \A k \in Keys(routing_data) :
            LET r == Rec(routing_data, k)
            IN  ~IsNone(r.redirect_chain) =>
                    \A i \in 2..Len(Val(r.redirect_chain)) :
                        \/ Val(r.redirect_chain)[i] = Fqcn(k)
                        \/ ~AnyTombstoned(loaded, k[2], <<Val(r.redirect_chain)[i]>>)

\* the name does not split into three parts
IsNonFqcn(name) == Len(Split2(name)) < 3

\* the name splits into three parts and its collection is not in the catalog
IsUnknownCollection(ld, name) ==
    ~IsNonFqcn(name) /\ Dot(Split2(name)[1], Split2(name)[2]) \notin DOMAIN ld

\* the walk from k reaches the end of its loaded path: it runs into no cycle
\* and no plugin it reaches is tombstoned
ReachesEnd(ld, k) == ~LeadsIntoCycle(ld, k) /\ FirstTombstone(ld, k) = 0

\* C14: after complete_redirects, no redirect_chain holds a name that is not
\* an FQCN; every plugin whose walk reaches a non-FQCN target is a dead end with
\* the error "Found redirect to non-FQCN <target>" and the chain up to the last
\* hop before the target; every plugin whose walk reaches an FQCN of a collection
\* that is not in the catalog is a dead end with the error "Found redirect to
\* unknown collection <collection>" and a chain that ends with that FQCN.
C14_DeadEndAttribution ==
    Resolved =>
        /\ \A k \in Keys(routing_data) :
              LET r == Rec(routing_data, k)
              IN  ~IsNone(r.redirect_chain) =>
                      \A i \in 1..Len(Val(r.redirect_chain)) :
                          ~IsNonFqcn(Val(r.redirect_chain)[i])
        /\ \A k \in Redirecting(loaded) :
              \A path \in {OrigPath(loaded, k)} :
              ((IsNonFqcn(Last(path)) \/ IsUnknownCollection(loaded, Last(path)))
                  /\ ReachesEnd(loaded, k)) =>
              LET r == Rec(routing_data, k)
                  target == Last(path)
              IN  /\ IsNonFqcn(target) =>
                        /\ r.redirect_dead_end /\ ~r.redirect_tombstone
                        /\ r.redirect_error = Some(NonFqcnError(target))
                        /\ r.redirect_chain = Some(SubSeq(path, 1, Len(path) - 1))
                  /\ IsUnknownCollection(loaded, target) =>
                        /\ r.redirect_dead_end /\ ~r.redirect_tombstone
                        /\ r.redirect_error =
                              Some(UnknownCollectionError(Dot(Split2(target)[1], Split2(target)[2])))
                        /\ r.redirect_chain = Some(path)
                        /\ Last(Val(r.redirect_chain)) = target

\* one plugin has reached a non-FQCN target through another plugin, and one
\* plugin has reached an unknown collection
C14_Witness ==
    /\ Resolved
    /\ \E k \in Redirecting(loaded) :
          /\ ReachesEnd(loaded, k) /\ IsNonFqcn(Last(OrigPath(loaded, k)))
          /\ Len(OrigPath(loaded, k)) >= 3
    /\ \E k \in Redirecting(loaded) :
          ReachesEnd(loaded, k) /\ IsUnknownCollection(loaded, Last(OrigPath(loaded, k)))

\* C15: in every state reachable from a loaded catalog by any sequence of
\* complete_redirects / complete_redirects_for_collection calls, no exception
\* has escaped from the resolver: neither the "Bad internal state" assertion
\* nor the lookup of the cycle's start index has failed.
C15_NeverRaises == ~raised

\* a walk has found a cycle of two or more plugins in its path (the start
\* index lookup), and no exception was raised
C15_Witness ==
    /\ ~raised
    /\ \E k \in Keys(loaded) :
          /\ OnWalkedCycle(loaded, k[2], Fqcn(k))
          /\ IsCycle(Rec(routing_data, k))
          /\ \E p \in Keys(loaded) :
                /\ LeadsIntoCycle(loaded, p) /\ ~OnCycle(loaded, p)
                /\ IsCycle(Rec(routing_data, p))

\* the walk w for plugin type t in catalog rd ended at lines 371-432: it ran
\* into a name of its own path (a reused cycle record carries redirect_error,
\* a plugin of the walk's path does not)
CycleDetected(rd, t, w) ==
    LET q == KeyOf(rd, t, w.next_name)
    IN  w.is_loop /\ ~IsNone(q) /\ IsNone(Rec(rd, Val(q)).redirect_error)

\* redirection_list as the while loop built it, before line 431 cut the
\* cycle off: the FQCNs in path order
WalkedPath(rd, t, w) ==
    [i \in 1..Len(w.redirection_list) |-> w.redirection_list[i].fqcn]
    \o (IF CycleDetected(rd, t, w)
        THEN SubSeq(Val(w.redirect_chain), 1, Len(Val(w.redirect_chain)) - 1)
        ELSE << >>)

\* the iterations of the while loop: one for the start and one for every
\* element appended by line 471 (the only elements that carry an owner); the
\* elements of a detected cycle were all appended there
WalkSteps(rd, t, w) ==
    Cardinality({i \in 1..Len(w.redirection_list) :
                    i = 1 \/ ~IsNone(w.redirection_list[i].owner)})
    + (IF CycleDetected(rd, t, w) THEN Len(Val(w.redirect_chain)) - 1 ELSE 0)

\* the plugins met when following the loaded redirects from k, k included
ReachablePlugins(ld, k) ==
    {Val(KeyOf(ld, k[2], n)) :
        n \in {m \in Range(OrigPath(ld, k)) : ~IsNone(KeyOf(ld, k[2], m))}}

\* C16: every walk complete_redirects makes ends; no FQCN occurs twice in
\* the walk's path, and the walk takes at most as many iterations as there
\* are plugins reachable from its start, also when the redirects form cycles.
C16_WalkTerminates ==
    [][IsVisit =>
        \A k \in {VisitedKey} :
            ~AlreadyDone(Rec(routing_data, k)) =>
            \A w \in {WalkFrom(routing_data, k)} :
            \A path \in {WalkedPath(routing_data, k[2], w)} :
                /\ Cardinality(Range(path)) = Len(path)
                /\ path[1] = Fqcn(k)
                /\ WalkSteps(routing_data, k[2], w)
                      <= Cardinality(ReachablePlugins(loaded, k))]_vars

\* a walk from a plugin outside a cycle of two plugins has run into the cycle
\* and detected it: the plugin's chain is its own name, then the two cycle
\* members, then the first of them again
C16_Witness ==
    \E k \in Keys(loaded) :
        /\ LeadsIntoCycle(loaded, k) /\ ~OnCycle(loaded, k)
        /\ Rec(loaded, k).redirect.kind = "str"
        /\ IsCycle(Rec(routing_data, k))
        /\ LET chain == Val(Rec(routing_data, k).redirect_chain)
           IN  Len(chain) = 4 /\ chain[2] = chain[4] /\ chain[2] # chain[3]

\* a record the resolver is done with: redirect_chain set, or redirect is the
\* ellipsis
IsResolved(r) == ~IsNone(r.redirect_chain) \/ r.redirect.kind = "ellipsis"

\* complete_redirects_for_collection has visited every plugin of its
\* collection and is about to return
ForCollectionDone == pc = "one" /\ NextIteration = {}

\* C17: when complete_redirects_for_collection(routing_data, B) returns, every
\* plugin of B whose document named a redirect is resolved, and so is every
\* plugin of any collection that is an element of such a plugin's chain and
\* whose document named a redirect.
C17_ForCollectionResolves ==
    ForCollectionDone =>
        \A k \in {q \in Redirecting(loaded) : q[1] = Val(cur_coll)} :
            /\ IsResolved(Rec(routing_data, k))
            /\ ~IsNone(Rec(routing_data, k).redirect_chain)
            /\ \A n \in Range(Val(Rec(routing_data, k).redirect_chain)) :
                  \A q \in Redirecting(loaded) :
                      (q[2] = k[2] /\ Fqcn(q) = n) => IsResolved(Rec(routing_data, q))

\* the call for bar.baz is about to return; the chain of its plugin runs
\* through a plugin of foo.bar that has a redirect, while another plugin of
\* foo.bar with a redirect is still as loaded
C17_Witness ==
    /\ ForCollectionDone /\ cur_coll = Some(BarBaz) /\ ~resolved
    /\ \E k \in Redirecting(loaded) :
          /\ k[1] = BarBaz
          /\ Len(Val(Rec(routing_data, k).redirect_chain)) >= 3
          /\ \E q \in Redirecting(loaded) :
                /\ q[1] = FooBar
                /\ Val(Rec(routing_data, k).redirect_chain)[2] = Fqcn(q)
    /\ \E u \in Redirecting(loaded) :
          u[1] = FooBar /\ ~IsResolved(Rec(routing_data, u))

\* the plugins whose document redirects to the plugin's own FQCN
SelfRedirecting(ld) == {k \in Keys(ld) : Rec(ld, k).redirect.kind = "ellipsis"}

\* the record _parse_plugin_data returns for plugin k without lines 167-173:
\* the redirect kept as the string, no chain, no error, no redirect_deprecations
WithoutShortcut(ld, k) ==
    PluginRouting(Rec(ld, k).action_plugin, RedirectStr(Fqcn(k)), None, None,
                  FALSE, FALSE, None, Rec(ld, k).deprecation, Rec(ld, k).tombstone)

\* C18: the record the loader produces for a plugin that redirects to its own
\* FQCN is the record _complete_redirect returns for that plugin loaded without
\* the shortcut (in the catalog as it is at any time), and no call of the
\* resolver changes the loader's record.
C18_LoaderShortcutIsResolverResult ==
    \A k \in SelfRedirecting(loaded) :
        \A own \in {Rec(loaded, k)}, plain \in {WithoutShortcut(loaded, k)} :
            /\ own.redirect_chain = Some(<<Fqcn(k), Fqcn(k)>>)
            /\ own.redirect_error = Some(CircularError)
            /\ own.redirect_deprecations =
                  (IF IsNone(own.deprecation) THEN None
                   ELSE Some(<< <<Fqcn(k), Val(own.deprecation)>> >>))
            /\ _complete_redirect(WriteOwner(routing_data, k[1], k[2], k[3], plain),
                                  plain, k[1], k[2], k[3]).plugin_data = own
            /\ Rec(routing_data, k) = own

\* complete_redirects has returned on a catalog in which a deprecated plugin
\* redirects to itself and another plugin redirects to it
C18_Witness ==
    /\ Resolved
    /\ \E k \in SelfRedirecting(loaded) :
          /\ ~IsNone(Rec(loaded, k).deprecation)
          /\ \E p \in Redirecting(loaded) :
                p # k /\ DocRedirect(loaded, p) = Some(Fqcn(k))

----------------------------------------------------------------------------
(* The metadata loader on one document                                     *)

\* labels of a plugin_routing mapping: the alias of "module", two plugin
\* types, and a label _get_real_plugin_type_name knows nothing about
Labels == {"modules", "module", "lookup", "nothing-we-care-about"}

\* the plugins a label may list, in document order
NameLists == {<< >>, << <<"a">> >>, << <<"b">> >>, << <<"a">>, <<"b">> >>}

\* the document entry of a plugin: "a" redirects to foo.bar.b, "b" is empty
LoaderDocOf(n) ==
    PluginDoc(IF n = <<"a">> THEN Some(<<"foo", "bar", "b">>) ELSE None, None, None, None)

LabelEntries ==
    {<<l, ns, [n \in Range(ns) |-> LoaderDocOf(n)]>> : l \in Labels, ns \in NameLists}

\* plugin_routing mappings: up to MaxLabels entries with distinct labels, in
\* the order plugin_routing.items() yields them
Documents ==
    UNION {{d \in [1..n -> LabelEntries] : \A i, j \in 1..n : d[i][1] = d[j][1] => i = j} :
              n \in 0..MaxLabels}

LoaderInit ==
    /\ yaml_data \in Documents
    /\ loader_out = None
    /\ ResolverUnused /\ CollectUnused /\ BuildUnused /\ CliUnused /\ DirUnused

\* _load_routing_information(data, own_name="foo.bar") runs and returns
LoadRoutingInformation ==
    /\ IsNone(loader_out)
    /\ loader_out' = Some(_load_routing_information(yaml_data, FooBar))
    /\ UNCHANGED <<yaml_data, resolver_vars, collect_vars, build_vars, cli_vars, dir_vars>>

LoaderNext == LoadRoutingInformation

SpecLoader == LoaderInit /\ [][LoaderNext]_vars

\* the plugins the document lists under labels that map to plugin type T
ListedUnder(T) ==
    UNION {Range(yaml_data[i][2]) :
              i \in {j \in 1..Len(yaml_data) : _get_real_plugin_type_name(yaml_data[j][1]) = T}}

\* C19: the loader's result holds under T every plugin the document lists
\* under a label that maps to T, also when two labels map to the same T;
\* it holds nothing else (plugins under an ignored label appear nowhere), and
\* it has no key for a type without plugins.
C19_NoEntryLost ==
    ~IsNone(loader_out) =>
        LET out == Val(loader_out)
        IN  /\ \A T \in {"module", "lookup"} :
                  \A n \in ListedUnder(T) : T \in DOMAIN out /\ n \in DOMAIN out[T]
            /\ \A T \in DOMAIN out :
                  /\ DOMAIN out[T] # {}
                  /\ DOMAIN out[T] \subseteq ListedUnder(T)

----------------------------------------------------------------------------
(* collect_routing_information                                             *)

\* what meta/runtime.yml of a collection holds under plugin_routing: nothing,
\* a string, or a mapping that lists module "a"
RuntimeData ==
    {[kind |-> "absent", entries |-> << >>],
     [kind |-> "str", entries |-> << >>],
     [kind |-> "mapping",
      entries |-> << <<"modules", << <<"a">> >>, [n \in {<<"a">>} |-> LoaderDocOf(n)]>> >>]}

CollectionInfo(full_name, data) == [full_name |-> full_name, data |-> data]

\* raise ValueError("Plugin routing information in ... must be a mapping, ...")
NotAMappingError == "Plugin routing information must be a mapping"

\* load_routing_information for a collection that is not ansible-core and has
\* no EDA routing file: the exception it raises (an Optional) or the
\* CollectionRouting it returns
load_routing_information(collection_info) ==
    IF collection_info.data.kind = "str"
    THEN [exc |-> Some(NotAMappingError), value |-> None]
    ELSE [exc |-> None,
          value |-> Some(CollectionRouting(
                        _load_routing_information(collection_info.data.entries,
                                                  collection_info.full_name)))]

\* what a handler does with a collection that failed to load
HandlerAnswers == {"raise", "none", "routing"}
HandlerError == "foo"
SubstituteRouting == CollectionRouting([t \in {"connection"} |-> << >>])

\* HandlerResult of a handler whose routing is thrown away
HandlerResultDropped(handler, collection_info) == None

\* res = handle_broken(collection_info, exc), for a handler that returns
HandlerResult(handler, collection_info) ==
    IF handler[collection_info.full_name] = "routing" THEN Some(SubstituteRouting) ELSE None

\* result[key] = value on a dict
SetItem(d, key, value) == [x \in DOMAIN d \cup {key} |-> IF x = key THEN value ELSE d[x]]

\* CollectionInfos.collections.values(): collections with distinct names
CollectionLists ==
    UNION {{l \in [1..n -> {CollectionInfo(c, d) : c \in CallableCollections, d \in RuntimeData}] :
               \A i, j \in 1..n : l[i].full_name = l[j].full_name => i = j} :
              n \in 0..MaxCollections}

CollectInit ==
    /\ collection_infos \in CollectionLists
    /\ handle_broken \in {None} \cup {Some(h) : h \in [CallableCollections -> HandlerAnswers]}
    /\ position = 0
    /\ collected = << >>
    /\ outcome = "running"
    /\ exception = None
    /\ ResolverUnused /\ LoaderUnused /\ BuildUnused /\ CliUnused /\ DirUnused

\* one iteration of the for loop (lines 332-342)
LoadNextCollection ==
    /\ outcome = "running" /\ position < Len(collection_infos)
    /\ LET collection_info == collection_infos[position + 1]
           r == load_routing_information(collection_info)
       IN  IF IsNone(r.exc)
           THEN /\ collected' = SetItem(collected, collection_info.full_name, Val(r.value))
                /\ position' = position + 1
                /\ UNCHANGED <<outcome, exception>>
           ELSE IF IsNone(handle_broken)
           THEN /\ outcome' = "raised"
                /\ exception' = r.exc
                /\ UNCHANGED <<collected, position>>
           ELSE IF Val(handle_broken)[collection_info.full_name] = "raise"
           THEN /\ outcome' = "raised"
                /\ exception' = Some(HandlerError)
                /\ UNCHANGED <<collected, position>>
           ELSE LET res == HandlerResult(Val(handle_broken), collection_info)
                IN  /\ collected' = IF ~IsNone(res)
                                    THEN SetItem(collected, collection_info.full_name, Val(res))
                                    ELSE collected
                    /\ position' = position + 1
                    /\ UNCHANGED <<outcome, exception>>
    /\ UNCHANGED <<collection_infos, handle_broken, resolver_vars, loader_vars,
                   build_vars, cli_vars, dir_vars>>

\* return result (line 343)
ReturnCollected ==
    /\ outcome = "running" /\ position = Len(collection_infos)
    /\ outcome' = "returned"
    /\ UNCHANGED <<collection_infos, handle_broken, position, collected, exception,
                   resolver_vars, loader_vars, build_vars, cli_vars, dir_vars>>

CollectNext == LoadNextCollection \/ ReturnCollected

SpecCollect == CollectInit /\ [][CollectNext]_vars

\* the collection's routing loads
Loads(collection_info) == collection_info.data.kind # "str"

\* the collection fails to load and the handler answers with a routing
Substituted(collection_info) ==
    /\ ~Loads(collection_info) /\ ~IsNone(handle_broken)
    /\ Val(handle_broken)[collection_info.full_name] = "routing"

\* the collection fails to load and there is no handler, or the handler raises
Propagates(collection_info) ==
    /\ ~Loads(collection_info)
    /\ IsNone(handle_broken) \/ Val(handle_broken)[collection_info.full_name] = "raise"

\* C20: at any time of collect_routing_information, a collection's name is a
\* key of the result iff the loop has handled the collection and its routing
\* loaded or the handler returned a routing for it, and the value is that
\* routing; the call raises exactly at the first collection that fails to
\* load with no handler or with a handler that raises, with that exception;
\* otherwise the loop goes on to the end and returns.
C20_CollectedIffLoadedOrSubstituted ==
    /\ \A i \in 1..Len(collection_infos) :
          LET collection_info == collection_infos[i]
              full_name == collection_info.full_name
          IN  /\ full_name \in DOMAIN collected
                    <=> (i <= position /\ (Loads(collection_info) \/ Substituted(collection_info)))
              /\ full_name \in DOMAIN collected =>
                    collected[full_name] =
                        (IF Loads(collection_info)
                         THEN CollectionRouting(
                                  _load_routing_information(collection_info.data.entries, full_name))
                         ELSE SubstituteRouting)
              /\ i <= position => ~Propagates(collection_info)
    /\ DOMAIN collected \subseteq {collection_infos[i].full_name : i \in 1..Len(collection_infos)}
    /\ outcome = "raised" =>
          /\ position < Len(collection_infos)
          /\ Propagates(collection_infos[position + 1])
          /\ exception = (IF IsNone(handle_broken) THEN Some(NotAMappingError)
                          ELSE Some(HandlerError))
    /\ outcome = "returned" => position = Len(collection_infos) /\ exception = None
    /\ outcome = "running" =>
          /\ exception = None
          /\ position < Len(collection_infos) => ENABLED LoadNextCollection

\* the call has returned; the first collection failed to load and the handler
\* returned None for it, the second one loaded and is in the result
C20_Witness ==
    /\ outcome = "returned" /\ Len(collection_infos) >= 2
    /\ ~Loads(collection_infos[1]) /\ ~IsNone(handle_broken)
    /\ Val(handle_broken)[collection_infos[1].full_name] = "none"
    /\ collection_infos[2].data.kind = "mapping"
    /\ DOMAIN collected = {collection_infos[2].full_name}

\* C26: no step of the resolver changes the record of a plugin that is
\* already resolved (its redirect_chain is set): whatever a walk writes for
\* such a plugin equals the record it replaces.
C26_ResolvedRecordsStay ==
    [][\A q \in Keys(routing_data) :
          ~IsNone(Rec(routing_data, q).redirect_chain) =>
              Rec(routing_data', q) = Rec(routing_data, q)]_vars

\* the record a walk that stopped at next_name found there, if next_name is a
\* plugin of type t that has a redirect and carries a cycle, dead-end or
\* tombstone outcome (the test of lines 455-459)
ResolvedTarget(rd, t, next_name) ==
    LET q == KeyOf(rd, t, next_name)
    IN  IF /\ ~IsNone(q)
           /\ Rec(rd, Val(q)).redirect.kind # "none"
           /\ \/ ~IsNone(Rec(rd, Val(q)).redirect_error)
              \/ Rec(rd, Val(q)).redirect_tombstone
              \/ Rec(rd, Val(q)).redirect_dead_end
        THEN Some(Rec(rd, Val(q))) ELSE None

\* what C27 says of a walk w from plugin k that stopped at the resolved
\* record Q: the records the step leaves for the plugins of the walked path
ReuseOutcome(k, w, Q) ==
    \A path \in {[i \in 1..Len(w.redirection_list) |-> w.redirection_list[i].fqcn]} :
    \A i \in 1..Len(path) :
        LET e == w.redirection_list[i]
            r == routing_data'[e.coll].plugin_data[k[2]][e.name]
            rest == SubSeq(path, i, Len(path))
        IN  /\ r.redirect_chain = Some(rest \o Val(Q.redirect_chain))
            /\ r.redirect_deprecations =
                  OrNone(OwnDeprecations(loaded, k[2], rest)
                         \o (IF IsNone(Q.redirect_deprecations) THEN << >>
                             ELSE Val(Q.redirect_deprecations)))
            /\ r.redirect_tombstone = Q.redirect_tombstone
            /\ r.redirect_dead_end = Q.redirect_dead_end
            /\ r.redirect_error = Q.redirect_error
            /\ (r.redirect.kind = "ellipsis") = (Q.redirect.kind = "ellipsis")

\* C27 as claimed: a walk that reaches a target Q which has a redirect and is
\* resolved to a cycle, dead-end or tombstone outcome gives every plugin X of
\* its path the chain X .. (before Q) followed by Q's chain, the own
\* deprecations of that path followed by Q's redirect_deprecations, Q's
\* outcome fields, and the ellipsis exactly when Q has it.
C27_ReuseOfResolvedTarget ==
    [][IsVisit =>
        \A k \in {VisitedKey} :
            ~AlreadyDone(Rec(routing_data, k)) =>
            \A w \in {WalkFrom(routing_data, k)} :
            \A Q \in {ResolvedTarget(routing_data, k[2], w.next_name)} :
                ~IsNone(Q) => ReuseOutcome(k, w, Val(Q))]_vars

\* C27 for a target without a tombstone of its own: the walk takes the reuse
\* branch (lines 455-466) and every plugin of its path gets the records C27
\* describes.
C27_ReuseOfUntombstonedTarget ==
    [][IsVisit =>
        \A k \in {VisitedKey} :
            ~AlreadyDone(Rec(routing_data, k)) =>
            \A w \in {WalkFrom(routing_data, k)} :
            \A Q \in {ResolvedTarget(routing_data, k[2], w.next_name)} :
                (~IsNone(Q) /\ IsNone(Val(Q).tombstone)) => ReuseOutcome(k, w, Val(Q))]_vars

\* a deprecated plugin redirects through another plugin to a plugin without
\* a tombstone that redirects to itself: the cycle record of the last one
\* was reused
C27_Witness ==
    \E k \in Redirecting(loaded) :
        /\ Rec(loaded, k).redirect.kind = "str"
        /\ ~IsNone(Rec(loaded, k).deprecation)
        /\ IsCycle(Rec(routing_data, k))
        /\ LET chain == Val(Rec(routing_data, k).redirect_chain)
           IN  /\ Len(chain) = 4 /\ chain[3] = chain[4]
               /\ ~AnyTombstoned(loaded, k[2], <<chain[3]>>)

----------------------------------------------------------------------------
(* The resolver on catalogs with two plugin types                          *)

\* plugin names each collection's meta/runtime.yml lists under "lookup": the
\* names are names of modules too
LookupNames(coll) == IF coll = FooBar THEN << <<"m1">> >> ELSE << <<"m3">> >>

\* the plugins of these documents as (collection, label, name)
TypedPlugins ==
    UNION {{<<c, "modules", n>> : n \in Range(ModuleNames(c))}
           \cup {<<c, "lookup", n>> : n \in Range(LookupNames(c))} : c \in Collections}

\* a plugin redirects to nothing or to the FQCN of one of the catalog's names
TypedRedirectChoices == {None} \cup {Some(Dot(p[1], p[2])) : p \in Plugins}

\* what the document entry of the module foo.bar.m1 carries besides its
\* redirect: (deprecation, tombstone, action_plugin)
OwnDataChoices ==
    LET dep == Some(RemovalData(WarningText("deprecated", <<"m1">>)))
        ts  == Some(RemovalData(WarningText("removed", <<"m1">>)))
        ap  == Some("foo.bar.act")
    IN  {<<None, None, None>>, <<None, None, ap>>, <<dep, None, None>>, <<dep, ts, ap>>}

\* collect_routing_information over these documents; r gives each plugin's
\* redirect, own the further data of the module foo.bar.m1
CollectTypedRoutingInformation(r, own) ==
    [c \in Collections |->
        CollectionRouting(
            _load_routing_information(
                << <<"modules", ModuleNames(c),
                     [n \in Range(ModuleNames(c)) |->
                         IF c = FooBar /\ n = <<"m1">>
                         THEN PluginDoc(r[<<c, "modules", n>>], own[1], own[2], own[3])
                         ELSE PluginDoc(r[<<c, "modules", n>>], None, None, None)]>>,
                   <<"lookup", LookupNames(c),
                     [n \in Range(LookupNames(c)) |->
                         PluginDoc(r[<<c, "lookup", n>>], None, None, None)]>> >>, c))]

InitTypes ==
    /\ \E r \in [TypedPlugins -> TypedRedirectChoices], own \in OwnDataChoices :
          routing_data = CollectTypedRoutingInformation(r, own)
    /\ loaded = routing_data
    /\ pc = "idle"
    /\ colls_todo = {}
    /\ cur_coll = None
    /\ types_todo = {}
    /\ cur_type = None
    /\ names_todo = {}
    /\ resolved = FALSE
    /\ raised = FALSE
    /\ LoaderUnused /\ CollectUnused /\ BuildUnused /\ CliUnused /\ DirUnused

SpecTypes == InitTypes /\ [][Next]_vars

\* C28: a step of complete_redirects_for_collection(routing_data, B) is the
\* walk from a plugin of B and changes only records of plugins of the walk's
\* plugin type that lie on the walk's path and have a redirect: records of
\* other plugin types, records off the path and the record the chain ends at
\* stay as they are; a call for a B that is no key of the catalog, and every
\* step that is no walk, changes nothing.
C28_OnlyWalkedRecordsChange ==
    [][/\ routing_data' # routing_data => IsVisit
       /\ IsVisit =>
            \A k \in {VisitedKey} :
                /\ pc = "one" => k[1] = Val(cur_coll)
                /\ \A q \in Keys(routing_data) \ {k} :
                      (q[2] # k[2] \/ Rec(routing_data, q).redirect.kind = "none") =>
                          Rec(routing_data', q) = Rec(routing_data, q)
                /\ AlreadyDone(Rec(routing_data, k)) => routing_data' = routing_data
                /\ ~AlreadyDone(Rec(routing_data, k)) =>
                      \A w \in {WalkFrom(routing_data, k)} :
                      \A path \in {WalkedPath(routing_data, k[2], w)} :
                      \A q \in Keys(routing_data) :
                          Rec(routing_data', q) # Rec(routing_data, q) =>
                              /\ q[2] = k[2]
                              /\ Fqcn(q) \in Range(path)
                              /\ ~IsNone(DocRedirect(loaded, q))]_vars

\* complete_redirects_for_collection(routing_data, foo.bar) is about to
\* return as the first call: a module of foo.bar redirects to the module
\* bar.baz.m3, which is resolved now, while the lookup bar.baz.m3 is as loaded
\* with its redirect
C28_Witness ==
    /\ ForCollectionDone /\ cur_coll = Some(FooBar) /\ ~resolved
    /\ "lookup" \in DOMAIN routing_data[BarBaz].plugin_data
    /\ LET mod == routing_data[BarBaz].plugin_data["module"][<<"m3">>]
           lkp == routing_data[BarBaz].plugin_data["lookup"][<<"m3">>]
       IN  /\ loaded[BarBaz].plugin_data["module"][<<"m3">>].redirect.kind = "str"
           /\ ~IsNone(mod.redirect_chain)
           /\ lkp.redirect.kind = "str" /\ IsNone(lkp.redirect_chain)
           /\ lkp = loaded[BarBaz].plugin_data["lookup"][<<"m3">>]

\* C29: in every state of every sequence of complete_redirects and
\* complete_redirects_for_collection calls the catalog has the collections,
\* the plugin types per collection and the plugin names per type it was
\* loaded with, every record has the action_plugin, deprecation and tombstone
\* it was loaded with, and every record loaded without a redirect is the
\* loaded record.
C29_OwnDataAndShapePreserved ==
    /\ DOMAIN routing_data = DOMAIN loaded
    /\ \A c \in DOMAIN loaded :
          /\ DOMAIN routing_data[c].plugin_data = DOMAIN loaded[c].plugin_data
          /\ \A t \in DOMAIN loaded[c].plugin_data :
                DOMAIN routing_data[c].plugin_data[t] = DOMAIN loaded[c].plugin_data[t]
    /\ \A q \in Keys(loaded) :
          /\ Rec(routing_data, q).action_plugin = Rec(loaded, q).action_plugin
          /\ Rec(routing_data, q).deprecation = Rec(loaded, q).deprecation
          /\ Rec(routing_data, q).tombstone = Rec(loaded, q).tombstone
          /\ IsNone(DocRedirect(loaded, q)) => Rec(routing_data, q) = Rec(loaded, q)

\* complete_redirects has returned; the module foo.bar.m1 has an action
\* plugin, a deprecation and a redirect and its record was replaced, and a
\* plugin loaded without a redirect is the end of a chain
C29_Witness ==
    /\ Resolved
    /\ \E q \in Keys(loaded) :
          /\ ~IsNone(Rec(loaded, q).action_plugin) /\ ~IsNone(Rec(loaded, q).deprecation)
          /\ Rec(loaded, q).redirect.kind = "str"
          /\ Rec(routing_data, q) # Rec(loaded, q)
          /\ \E e \in Keys(loaded) :
                /\ IsNone(DocRedirect(loaded, e))
                /\ Last(Val(Rec(routing_data, q).redirect_chain)) = Fqcn(e)

----------------------------------------------------------------------------
(* CollectionInfos.build                                                    *)

\* number of CollectionInfo objects the iterable given to build yields
MaxInfos == 3

AnsibleBuiltin == "ansible.builtin"
AnsibleLegacy == "ansible.legacy"

\* a CollectionInfo as build reads it: path, full_name and is_ansible_core
BuildInfo(path, full_name, is_ansible_core) ==
    [path |-> path, full_name |-> full_name, is_ansible_core |-> is_ansible_core]

BuildInfos ==
    {BuildInfo(p, n, c) : p \in {"/a", "/b"},
                          n \in {AnsibleBuiltin, AnsibleLegacy, "foo.bar"},
                          c \in BOOLEAN}

\* an Iterable[CollectionInfo]: the objects it yields, and whether it can be
\* traversed once only (an iterator or generator; pos is how far it has been
\* consumed) or again and again (a list)
Iterables(n) ==
    {[items |-> l, one_shot |-> o, pos |-> 0] : l \in [1..n -> BuildInfos], o \in BOOLEAN}

\* one traversal to the end (a for loop or a comprehension): what it yields
\* and the iterable after it
Traverse(it) ==
    IF it.one_shot
    THEN [got |-> SubSeq(it.items, it.pos + 1, Len(it.items)),
          after |-> [it EXCEPT !.pos = Len(it.items)]]
    ELSE [got |-> it.items, after |-> it]

\* collection.full_name in ("ansible.builtin", "ansible.legacy")
IsAliasBuiltinOnly(full_name) == full_name = AnsibleBuiltin

IsAlias(full_name) == full_name \in {AnsibleBuiltin, AnsibleLegacy}

\* the for loop of build over what the second traversal yields
RECURSIVE FillNameToColl(_, _)
FillNameToColl(name_to_coll, got) ==
    IF got = << >> THEN name_to_coll
    ELSE LET collection == Head(got)
         IN  IF IsAlias(collection.full_name)
             THEN FillNameToColl(name_to_coll, Tail(got))
             ELSE IF collection.full_name \notin DOMAIN name_to_coll
             THEN FillNameToColl(SetItem(name_to_coll, collection.full_name, collection),
                                 Tail(got))
             ELSE FillNameToColl(name_to_coll, Tail(got))

MoreThanOneCore == "Found more than one collection claiming to be ansible-core"
WrongFullName(full_name) == <<"Ansible-core has wrong full name", full_name>>

\* CollectionInfos.build(collections): the ValueError it raises or the
\* CollectionInfos it returns, and the iterable after the call
build(collections) ==
    LET first == Traverse(collections)
        cores == SelectSeq(first.got, LAMBDA collection : collection.is_ansible_core)
        ansible_core == IF cores # << >> THEN Some(cores[1]) ELSE None
        second == Traverse(first.after)
    IN  IF Len(cores) > 1
        THEN [kind |-> "ValueError", message |-> MoreThanOneCore, after |-> first.after]
        ELSE IF ~IsNone(ansible_core) /\ Val(ansible_core).full_name # AnsibleBuiltin
        THEN [kind |-> "ValueError",
              message |-> WrongFullName(Val(ansible_core).full_name),
              after |-> first.after]
        ELSE [kind |-> "CollectionInfos",
              ansible_core |-> ansible_core,
              collections |->
                  FillNameToColl(IF IsNone(ansible_core) THEN << >>
                                 ELSE SetItem(<< >>, AnsibleBuiltin, Val(ansible_core)),
                                 second.got),
              after |-> second.after]

BuildInit ==
    /\ \E n \in 0..MaxInfos : build_arg \in Iterables(n)
    /\ build_out = None
    /\ ResolverUnused /\ LoaderUnused /\ CollectUnused /\ CliUnused /\ DirUnused

\* the call CollectionInfos.build(build_arg)
Build ==
    /\ IsNone(build_out)
    /\ \A r \in {build(build_arg)} :
          /\ build_out' = Some([x \in DOMAIN r \ {"after"} |-> r[x]])
          /\ build_arg' = r.after
    /\ UNCHANGED <<resolver_vars, loader_vars, collect_vars, cli_vars, dir_vars>>

BuildNext == Build

SpecBuild == BuildInit /\ [][BuildNext]_vars

\* the objects marked as core among what the iterable yields
CoresOf(items) == SelectSeq(items, LAMBDA collection : collection.is_ansible_core)

\* C21: build raises ValueError exactly when more than one yielded object is
\* marked as core or the one marked as core is not named ansible.builtin;
\* otherwise the collections map has no key ansible.legacy, has the key
\* ansible.builtin exactly when an object is marked as core and then maps it
\* to that object (which is ansible_core), and maps every key to an object
\* of that full name.
C21_BuildErrorsAndAliases ==
    ~IsNone(build_out) =>
        \A r \in {Val(build_out)} : \A cores \in {CoresOf(build_arg.items)} :
            /\ r.kind = "ValueError" <=>
                  \/ Len(cores) > 1
                  \/ Len(cores) = 1 /\ cores[1].full_name # AnsibleBuiltin
            /\ r.kind = "ValueError" /\ Len(cores) > 1 => r.message = MoreThanOneCore
            /\ r.kind = "CollectionInfos" =>
                  /\ AnsibleLegacy \notin DOMAIN r.collections
                  /\ AnsibleBuiltin \in DOMAIN r.collections <=> Len(cores) = 1
                  /\ Len(cores) = 1 =>
                        /\ r.collections[AnsibleBuiltin] = cores[1]
                        /\ r.ansible_core = Some(cores[1])
                  /\ Len(cores) = 0 => IsNone(r.ansible_core)
                  /\ \A n \in DOMAIN r.collections : r.collections[n].full_name = n

\* build has returned for an input that yields the core object and objects
\* named ansible.builtin and ansible.legacy that are not marked as core
C21_Witness ==
    /\ ~IsNone(build_out) /\ Val(build_out).kind = "CollectionInfos"
    /\ ~IsNone(Val(build_out).ansible_core)
    /\ \E i, j \in 1..Len(build_arg.items) :
          /\ build_arg.items[i].full_name = AnsibleLegacy
          /\ build_arg.items[j].full_name = AnsibleBuiltin
          /\ ~build_arg.items[j].is_ansible_core

\* the first object of items with the full name n
FirstNamed(items, n) ==
    items[CHOOSE i \in 1..Len(items) :
              /\ items[i].full_name = n
              /\ \A j \in 1..(i - 1) : items[j].full_name # n]

\* C30: when build returns, for every iterable that yields the sequence (one
\* that can be traversed only once included), collections maps each full
\* name other than ansible.builtin and ansible.legacy that occurs in the
\* input to the first object yielded with that name.
C30_SameInventoryForEveryIterable ==
    (~IsNone(build_out) /\ Val(build_out).kind = "CollectionInfos") =>
        \A n \in {build_arg.items[i].full_name : i \in 1..Len(build_arg.items)} :
            ~IsAlias(n) =>
                /\ n \in DOMAIN Val(build_out).collections
                /\ Val(build_out).collections[n] = FirstNamed(build_arg.items, n)

----------------------------------------------------------------------------
(* get_plugin_directory                                                     *)

CORE_DOCUMENTABLE_PLUGIN_TYPES ==
    {"become", "cache", "callback", "cliconf", "connection", "filter", "httpapi",
     "inventory", "lookup", "module", "netconf", "shell", "strategy", "test", "vars"}

CORE_OTHER_PLUGIN_TYPES == {"action", "doc_fragments", "module_utils", "plugin_utils"}

EDA_PLUGIN_TYPES == {"eda_event_filter", "eda_event_source"}

\* _EDA_DIRECTORIES.get(plugin_type): an Optional; a directory is the
\* sequence of its path components
_EDA_DIRECTORIES(plugin_type) ==
    IF plugin_type = "eda_event_filter"
    THEN Some(<<"extensions", "eda", "plugins", "event_filter">>)
    ELSE IF plugin_type = "eda_event_source"
    THEN Some(<<"extensions", "eda", "plugins", "event_source">>)
    ELSE None

ALL_PLUGIN_TYPES ==
    CORE_DOCUMENTABLE_PLUGIN_TYPES \cup EDA_PLUGIN_TYPES \cup CORE_OTHER_PLUGIN_TYPES

\* labels that are no value of PluginType
OtherLabels == {"not-a-valid-type", "modules", "event_filter", ""}

\* Path / name for a name of one or more components
Slash(path, components) == path \o components

\* a plugin type of CORE_DOCUMENTABLE_PLUGIN_TYPES only
IsCorePluginTypeDocumentableOnly(plugin_type) ==
    plugin_type \in CORE_DOCUMENTABLE_PLUGIN_TYPES

\* plugin_type in CORE_DOCUMENTABLE_PLUGIN_TYPES or plugin_type in
\* CORE_OTHER_PLUGIN_TYPES
IsCorePluginType(plugin_type) ==
    plugin_type \in CORE_DOCUMENTABLE_PLUGIN_TYPES \/ plugin_type \in CORE_OTHER_PLUGIN_TYPES

\* raise ValueError(f"Unknown plugin type {plugin_type!r} for {what}")
UnknownPluginType(plugin_type, what) ==
    [kind |-> "ValueError", message |-> <<"Unknown plugin type", plugin_type, "for", what>>]

\* get_plugin_directory(collection, plugin_type): the Path it returns or the
\* ValueError it raises
get_plugin_directory(collection, plugin_type) ==
    IF plugin_type = "module"
    THEN IF collection.is_ansible_core
         THEN [kind |-> "Path", path |-> Slash(collection.path, <<"modules">>)]
         ELSE [kind |-> "Path", path |-> Slash(collection.path, <<"plugins", "modules">>)]
    ELSE IF IsCorePluginType(plugin_type)
    THEN [kind |-> "Path", path |-> Slash(collection.path, <<"plugins", plugin_type>>)]
    ELSE IF ~collection.is_ansible_core /\ ~IsNone(_EDA_DIRECTORIES(plugin_type))
    THEN [kind |-> "Path",
          path |-> Slash(collection.path, Val(_EDA_DIRECTORIES(plugin_type)))]
    ELSE UnknownPluginType(plugin_type,
                           IF collection.is_ansible_core THEN <<"ansible-core">>
                           ELSE <<"collection", collection.full_name>>)

\* the collections get_plugin_directory is called with
DirCollections ==
    {BuildInfo(p, n, c) : p \in {<<"/core">>, <<"/coll">>, <<"/usr", "share">>},
                          n \in {AnsibleBuiltin, "foo.bar"},
                          c \in BOOLEAN}

DirInit ==
    /\ dir_args \in {[collection |-> c, plugin_type |-> t] :
                        c \in DirCollections, t \in ALL_PLUGIN_TYPES \cup OtherLabels}
    /\ dir_out = None
    /\ ResolverUnused /\ LoaderUnused /\ CollectUnused /\ BuildUnused /\ CliUnused

\* the call get_plugin_directory(collection, plugin_type)
GetPluginDirectory ==
    /\ IsNone(dir_out)
    /\ dir_out' = Some(get_plugin_directory(dir_args.collection, dir_args.plugin_type))
    /\ UNCHANGED <<dir_args, resolver_vars, loader_vars, collect_vars, build_vars, cli_vars>>

DirNext == GetPluginDirectory

SpecDir == DirInit /\ [][DirNext]_vars

\* C25: for a collection that is not ansible-core get_plugin_directory
\* returns a path for every value of PluginType; it raises the
\* unknown-plugin-type ValueError, which names the plugin type and the
\* collection, exactly for labels that are no value of PluginType and, for
\* ansible-core, for eda_event_filter and eda_event_source; module is
\* <path>/modules for ansible-core and <path>/plugins/modules otherwise.
C25_PluginDirectory ==
    ~IsNone(dir_out) =>
        \A c \in {dir_args.collection} : \A t \in {dir_args.plugin_type} :
        \A r \in {Val(dir_out)} :
            /\ (~c.is_ansible_core /\ t \in ALL_PLUGIN_TYPES) => r.kind = "Path"
            /\ r.kind = "ValueError" <=>
                  \/ t \notin ALL_PLUGIN_TYPES
                  \/ c.is_ansible_core /\ t \in EDA_PLUGIN_TYPES
            /\ r.kind = "ValueError" =>
                  r = UnknownPluginType(t, IF c.is_ansible_core THEN <<"ansible-core">>
                                           ELSE <<"collection", c.full_name>>)
            /\ t = "module" =>
                  r = [kind |-> "Path",
                       path |-> IF c.is_ansible_core THEN c.path \o <<"modules">>
                                ELSE c.path \o <<"plugins", "modules">>]

\* get_plugin_directory has returned the directory of an EDA plugin type
C25_Witness ==
    /\ ~IsNone(dir_out)
    /\ dir_args.plugin_type = "eda_event_source"
    /\ Val(dir_out).kind = "Path"
    /\ Val(dir_out).path =
          dir_args.collection.path \o <<"extensions", "eda", "plugins", "event_source">>

----------------------------------------------------------------------------
(* ansible_galaxy_list_collections                                          *)

_COLLECTIONS_PATH_ENV_VAR == "ANSIBLE_COLLECTIONS_PATH"
_COLLECTIONS_PATH_ENV_VAR_COMPAT == "ANSIBLE_COLLECTIONS_PATHS"

\* the keys of the env.update(...) of _prepare_env
PluginPathVars ==
    {"ANSIBLE_ACTION_PLUGINS", "ANSIBLE_CACHE_PLUGINS", "ANSIBLE_CALLBACK_PLUGINS",
     "ANSIBLE_CLICONF_PLUGINS", "ANSIBLE_CONNECTION_PLUGINS", "ANSIBLE_FILTER_PLUGINS",
     "ANSIBLE_HTTPAPI_PLUGINS", "ANSIBLE_INVENTORY_PLUGINS", "ANSIBLE_LOOKUP_PLUGINS",
     "ANSIBLE_LIBRARY", "ANSIBLE_MODULE_UTILS", "ANSIBLE_NETCONF_PLUGINS",
     "ANSIBLE_ROLES_PATH", "ANSIBLE_STRATEGY_PLUGINS", "ANSIBLE_TERMINAL_PLUGINS",
     "ANSIBLE_TEST_PLUGINS", "ANSIBLE_VARS_PLUGINS", "ANSIBLE_DOC_FRAGMENT_PLUGINS"}

DevNull == "/dev/null"

\* env.update({...}): every plugin-path variable becomes /dev/null
UpdatePluginPaths(env) ==
    [x \in DOMAIN env \cup PluginPathVars |-> IF x \in PluginPathVars THEN DevNull ELSE env[x]]

\* the key of the assignment env["_COLLECTIONS_PATH_ENV_VAR_COMPAT"] = ...:
\* the string literal
CompatKey == "_COLLECTIONS_PATH_ENV_VAR_COMPAT"

\* _prepare_env(collections_path=..., only_pass_env_updates=..., compat=...)
\* in a process whose os.environ is environ: an Optional dict
_prepare_env(collections_path, only_pass_env_updates, compat, environ) ==
    LET env0 == IF only_pass_env_updates THEN << >> ELSE environ
        env1 == UpdatePluginPaths(env0)
        truthy == ~IsNone(collections_path) /\ Val(collections_path) # ""
        env2 == IF truthy
                THEN SetItem(env1, "ANSIBLE_COLLECTIONS_PATH", Val(collections_path))
                ELSE env1
        env3 == IF truthy /\ compat
                THEN SetItem(env2, CompatKey, Val(collections_path))
                ELSE env2
    IN  IF DOMAIN env3 # {} \/ ~only_pass_env_updates THEN Some(env3) ELSE None

\* the parts of the messages the listing looks for in stderr
InvalidChoice == "error: argument COLLECTION_ACTION: invalid choice: 'list'"
UnrecognizedFormat == "error: unrecognized arguments: --format"
NoUsablePaths == "None of the provided paths were usable."

\* stderr of the tool: which of the messages its bytes contain, and whether
\* the bytes are valid UTF-8
Stderrs == [has : SUBSET {InvalidChoice, UnrecognizedFormat, NoUsablePaths}, utf8 : BOOLEAN]

\* the value of a collection in the JSON output: a mapping with or without
\* "version", or something that is no mapping
CollectionData(version) == [mapping |-> TRUE, version |-> version]
NotAMapping == [mapping |-> FALSE, version |-> None]

\* a collection name, as every first token of a line, is the sequence of its
\* dot-separated parts
NameFooBar == <<"foo", "bar">>
NameThree == <<"foo", "bar", "baz">>
NameOne == <<"Collection">>

\* stdout of the tool: what json.loads makes of it (an Optional: None when it
\* raises) and what stdout.decode("utf-8").splitlines() followed by
\* line.split(maxsplit=1) makes of it (an Optional: None when decode raises)
Stdouts ==
    {[json |-> None, lines |-> None],
     [json |-> None, lines |-> Some(<< >>)],
     [json |-> Some(<< >>), lines |-> Some(<< << <<"{}">> >> >>)],
     [json |-> Some(<< <<"/root", << <<NameFooBar, CollectionData(Some("1.0"))>>,
                                     <<NameThree, CollectionData(Some("1.0"))>>,
                                     <<<<"bar", "baz">>, CollectionData(Some("*"))>> >> >> >>),
      lines |-> Some(<< << <<"{\"/root\":">>, "{...}" >> >>)],
     [json |-> Some(<< <<"/root", << <<NameFooBar, CollectionData(None)>>,
                                     <<NameOne, NotAMapping>> >> >> >>),
      lines |-> Some(<< << <<"{\"/root\":">>, "{...}" >> >>)],
     [json |-> None,
      lines |-> Some(<< <<NameFooBar, "0.1">>,
                        << <<"#">>, "/root">>,
                        <<NameOne, "Version">>,
                        << <<"----------">> >>,
                        <<NameFooBar, "1.0">>,
                        <<<<"bar", "baz">>, "*">> >>)]}

\* what a runner call gives: an exception, or (stdout, stderr, rc)
RunnerAnswers ==
    {[raises |-> TRUE]}
    \cup {[raises |-> FALSE, stdout |-> o, stderr |-> e, rc |-> rc] :
             o \in Stdouts, e \in Stderrs, rc \in {0, 1, 2, 5}}

\* _yield_collection: the CollectionInfo objects it yields (none or one)
_yield_collection(collection_name, collection_version, root) ==
    IF Len(collection_name) # 2 THEN << >>
    ELSE << [path |-> <<root, collection_name[1], collection_name[2]>>,
             namespace |-> collection_name[1],
             name |-> collection_name[2],
             full_name |-> collection_name,
             version |-> IF collection_version \in {Some("*"), None} THEN None
                         ELSE collection_version] >>

ListingCollectionsError(message) == [type |-> "ListingCollectionsError", message |-> message]
Ansible29Error == [type |-> "Ansible29Error",
                   message |-> "ansible-galaxy does not support 'collection list' command"]

\* an exception that is no ListingCollectionsError
OtherException(what) == [type |-> "Exception", message |-> what]

\* f"Unexpected return code {rc} when listing collections. Standard error
\* output: {stderr.decode('utf-8')}": the exception raised, which is the
\* decoding error when stderr is not valid UTF-8
UnexpectedReturnCode(rc, stderr) ==
    IF stderr.utf8
    THEN ListingCollectionsError(<<"Unexpected return code", rc, stderr.has>>)
    ELSE OtherException("UnicodeDecodeError")

\* the loop over the lines of the tabular output; st is the root (an
\* Optional) and the objects yielded so far
RECURSIVE CompatLines(_, _, _)
CompatLines(lines, root, out) ==
    IF lines = << >> THEN out
    ELSE LET parts == Head(lines)
         IN  IF Len(parts) < 2 THEN CompatLines(Tail(lines), root, out)
             ELSE IF parts[1] = <<"#">> THEN CompatLines(Tail(lines), Some(parts[2]), out)
             ELSE IF ~IsNone(root)
             THEN CompatLines(Tail(lines), root,
                              out \o _yield_collection(parts[1], Some(parts[2]), Val(root)))
             ELSE CompatLines(Tail(lines), root, out)

\* the body of _ansible_galaxy_list_collections_compat after its runner
\* call: what it yields and the exception that ends it (an Optional)
_ansible_galaxy_list_collections_compat(answer) ==
    IF answer.raises THEN [yields |-> << >>, exc |-> Some(OtherException("runner"))]
    ELSE IF answer.rc = 5 /\ NoUsablePaths \in answer.stderr.has
    THEN [yields |-> << >>, exc |-> None]
    ELSE IF answer.rc # 0
    THEN [yields |-> << >>, exc |-> Some(UnexpectedReturnCode(answer.rc, answer.stderr))]
    ELSE IF IsNone(answer.stdout.lines)
    THEN [yields |-> << >>, exc |-> Some(OtherException("UnicodeDecodeError"))]
    ELSE [yields |-> CompatLines(Val(answer.stdout.lines), None, << >>), exc |-> None]

\* the loops over the JSON data: what is yielded, and the exception that ends
\* them when a collection's value is no mapping
RECURSIVE JsonCollections(_, _, _)
JsonCollections(collections, root, out) ==
    IF collections = << >> THEN [yields |-> out, exc |-> None]
    ELSE LET collection_name == Head(collections)[1]
             collection_data == Head(collections)[2]
         IN  IF collection_data = NotAMapping
             THEN [yields |-> out, exc |-> Some(OtherException("AttributeError"))]
             ELSE JsonCollections(Tail(collections), root,
                                  out \o _yield_collection(collection_name,
                                                           collection_data.version, root))

RECURSIVE JsonRoots(_, _)
JsonRoots(data, out) ==
    IF data = << >> THEN [yields |-> out, exc |-> None]
    ELSE LET r == JsonCollections(Head(data)[2], Head(data)[1], out)
         IN  IF ~IsNone(r.exc) THEN r ELSE JsonRoots(Tail(data), r.yields)

\* an exception handler that lets every exception through as it is
ReraiseAsIs(exc) == exc

\* except ListingCollectionsError: raise / except Exception as exc: raise
\* ListingCollectionsError(...) from exc (Ansible29Error is a subclass)
Reraise(exc) ==
    IF IsNone(exc) THEN None
    ELSE IF Val(exc).type \in {"ListingCollectionsError", "Ansible29Error"} THEN exc
    ELSE Some(ListingCollectionsError(<<"Error while loading collection list", Val(exc).message>>))

\* the test that sends the listing to the fallback, without the rc
IsFormatFallbackAnyRc(rc, stderr) == UnrecognizedFormat \in stderr.has

\* rc == 2 and b"error: unrecognized arguments: --format" in stderr
IsFormatFallback(rc, stderr) == rc = 2 /\ UnrecognizedFormat \in stderr.has

\* the body of ansible_galaxy_list_collections after the first runner call,
\* up to the fallback: "compat" or what it yields and the exception
AfterFirstCall(answer) ==
    IF answer.raises
    THEN [next |-> "done", yields |-> << >>, exc |-> Some(OtherException("runner"))]
    ELSE IF answer.rc = 2 /\ InvalidChoice \in answer.stderr.has
    THEN [next |-> "done", yields |-> << >>, exc |-> Some(Ansible29Error)]
    ELSE IF IsFormatFallback(answer.rc, answer.stderr)
    THEN [next |-> "compat", yields |-> << >>, exc |-> None]
    ELSE IF answer.rc = 5 /\ NoUsablePaths \in answer.stderr.has
    THEN [next |-> "done", yields |-> << >>, exc |-> None]
    ELSE IF answer.rc # 0
    THEN [next |-> "done", yields |-> << >>,
          exc |-> Some(UnexpectedReturnCode(answer.rc, answer.stderr))]
    ELSE IF IsNone(answer.stdout.json)
    THEN [next |-> "done", yields |-> << >>, exc |-> Some(OtherException("JSONDecodeError"))]
    ELSE LET r == JsonRoots(Val(answer.stdout.json), << >>)
         IN  [next |-> "done", yields |-> r.yields, exc |-> r.exc]

\* os.environ of the calling process
Environs ==
    {<< >>,
     [x \in {"HOME"} |-> "/home/user"],
     [x \in {"ANSIBLE_LIBRARY", "ANSIBLE_COLLECTIONS_PATH", "ANSIBLE_COLLECTIONS_PATHS"} |->
         "/old"]}

CliInit ==
    /\ cli_args \in [collections_path : {None, Some(""), Some("/cp")},
                     only_pass_env_updates : BOOLEAN,
                     environ : Environs]
    /\ runner_calls = << >>
    /\ cli_pc = "start"
    /\ yielded = << >>
    /\ cli_exc = None
    /\ ResolverUnused /\ LoaderUnused /\ CollectUnused /\ BuildUnused /\ DirUnused

\* the generator runs up to the fallback or to its end: the runner is called
\* with --format json
FirstInvocation ==
    /\ cli_pc = "start"
    /\ \E answer \in RunnerAnswers :
          /\ runner_calls' =
                Append(runner_calls,
                       [args |-> <<"ansible-galaxy", "collection", "list", "--format", "json">>,
                        env |-> _prepare_env(cli_args.collections_path,
                                             cli_args.only_pass_env_updates,
                                             FALSE, cli_args.environ),
                        answer |-> answer])
          /\ \A r \in {AfterFirstCall(answer)} :
                /\ cli_pc' = r.next
                /\ yielded' = yielded \o r.yields
                /\ cli_exc' = Reraise(r.exc)
    /\ UNCHANGED <<cli_args, resolver_vars, loader_vars, collect_vars, build_vars, dir_vars>>

\* yield from _ansible_galaxy_list_collections_compat(...); return
CompatInvocation ==
    /\ cli_pc = "compat"
    /\ \E answer \in RunnerAnswers :
          /\ runner_calls' =
                Append(runner_calls,
                       [args |-> <<"ansible-galaxy", "collection", "list">>,
                        env |-> _prepare_env(cli_args.collections_path,
                                             cli_args.only_pass_env_updates,
                                             TRUE, cli_args.environ),
                        answer |-> answer])
          /\ \A r \in {_ansible_galaxy_list_collections_compat(answer)} :
                /\ cli_pc' = "done"
                /\ yielded' = yielded \o r.yields
                /\ cli_exc' = Reraise(r.exc)
    /\ UNCHANGED <<cli_args, resolver_vars, loader_vars, collect_vars, build_vars, dir_vars>>

CliNext == FirstInvocation \/ CompatInvocation

SpecCli == CliInit /\ [][CliNext]_vars

\* the collections of the JSON data in order, as (root, name, data)
RECURSIVE JsonEntries(_)
JsonEntries(data) ==
    IF data = << >> THEN << >>
    ELSE [i \in 1..Len(Head(data)[2]) |->
             <<Head(data)[1], Head(data)[2][i][1], Head(data)[2][i][2]>>]
         \o JsonEntries(Tail(data))

\* the bundle of an entry (root, name, version) whose name has two parts
BundleOf(root, name, version) ==
    [path |-> <<root, name[1], name[2]>>, namespace |-> name[1], name |-> name[2],
     full_name |-> name,
     version |-> IF version = Some("*") THEN None ELSE version]

\* the bundles of the JSON output: one per collection whose name is
\* namespace.name
RECURSIVE BundlesOf(_)
BundlesOf(entries) ==
    IF entries = << >> THEN << >>
    ELSE (IF Len(Head(entries)[2]) = 2
          THEN <<BundleOf(Head(entries)[1], Head(entries)[2], Head(entries)[3].version)>>
          ELSE << >>)
         \o BundlesOf(Tail(entries))

IsListingError(exc) == ~IsNone(exc) /\ Val(exc).type = "ListingCollectionsError"
FirstOnly == Len(runner_calls) = 1 /\ cli_pc = "done"

\* C22: how ansible_galaxy_list_collections maps the answer of the first
\* invocation: rc 2 with the invalid-choice message raises Ansible29Error;
\* rc 5 with the no-usable-paths message yields nothing; rc 0 yields the
\* bundles of the JSON output; every other rc that is not 0 (the --format
\* fallback apart) raises ListingCollectionsError with the rc and the decoded
\* stderr; an exception of the runner, output that is no JSON or is not of
\* the expected shape, and stderr that cannot be decoded, raise
\* ListingCollectionsError; no exception of another type leaves the listing.
C22_FirstInvocationMapping ==
    /\ ~IsNone(cli_exc) => Val(cli_exc).type \in {"ListingCollectionsError", "Ansible29Error"}
    /\ Len(runner_calls) >= 1 =>
        \A a \in {runner_calls[1].answer} :
            /\ a.raises => FirstOnly /\ IsListingError(cli_exc) /\ yielded = << >>
            /\ ~a.raises =>
                /\ (a.rc = 2 /\ InvalidChoice \in a.stderr.has) =>
                      FirstOnly /\ cli_exc = Some(Ansible29Error) /\ yielded = << >>
                /\ (a.rc = 5 /\ NoUsablePaths \in a.stderr.has) =>
                      FirstOnly /\ IsNone(cli_exc) /\ yielded = << >>
                /\ a.rc = 0 =>
                      /\ FirstOnly
                      /\ IsNone(a.stdout.json) => IsListingError(cli_exc) /\ yielded = << >>
                      /\ ~IsNone(a.stdout.json) =>
                            \A entries \in {JsonEntries(Val(a.stdout.json))} :
                                IF \A i \in 1..Len(entries) : entries[i][3].mapping
                                THEN IsNone(cli_exc) /\ yielded = BundlesOf(entries)
                                ELSE IsListingError(cli_exc)
                /\ (/\ a.rc # 0
                    /\ ~(a.rc = 2 /\ InvalidChoice \in a.stderr.has)
                    /\ ~(a.rc = 2 /\ UnrecognizedFormat \in a.stderr.has)
                    /\ ~(a.rc = 5 /\ NoUsablePaths \in a.stderr.has)) =>
                      /\ FirstOnly /\ IsListingError(cli_exc) /\ yielded = << >>
                      /\ a.stderr.utf8 =>
                            Val(cli_exc).message = <<"Unexpected return code", a.rc, a.stderr.has>>

\* the first invocation returned rc 0 and JSON that lists foo.bar, a name of
\* three parts and bar.baz with version "*": two bundles were yielded
C22_Witness ==
    /\ FirstOnly /\ IsNone(cli_exc)
    /\ ~runner_calls[1].answer.raises /\ runner_calls[1].answer.rc = 0
    /\ Len(yielded) = 2
    /\ yielded[1].full_name = NameFooBar /\ yielded[1].version = Some("1.0")
    /\ yielded[2].full_name = <<"bar", "baz">> /\ IsNone(yielded[2].version)

\* the first answer sends the listing to the fallback
FallbackAnswer(a) ==
    /\ ~a.raises /\ a.rc = 2
    /\ UnrecognizedFormat \in a.stderr.has /\ InvalidChoice \notin a.stderr.has

\* C23: the runner is invoked at most twice per listing, first with
\* collection list --format json; a second time, with collection list and no
\* --format, exactly when the first invocation returned rc 2 with the
\* unrecognized-arguments message and not the invalid-choice message; then
\* the second answer alone decides: rc 5 with the no-usable-paths message
\* yields nothing, any other rc that is not 0 raises ListingCollectionsError,
\* rc 0 yields collections of the tabular output; the invocations made are
\* never changed or repeated: each step adds one invocation to those made.
C23_AtMostTwoInvocations ==
    /\ [](
        /\ Len(runner_calls) <= 2
        /\ cli_pc = "start" <=> runner_calls = << >>
        /\ Len(runner_calls) >= 1 =>
              /\ runner_calls[1].args = <<"ansible-galaxy", "collection", "list", "--format", "json">>
              /\ cli_pc = "compat" <=> (Len(runner_calls) = 1 /\ FallbackAnswer(runner_calls[1].answer))
              /\ cli_pc = "done" =>
                    (Len(runner_calls) = 2 <=> FallbackAnswer(runner_calls[1].answer))
        /\ Len(runner_calls) = 2 =>
              /\ FallbackAnswer(runner_calls[1].answer)
              /\ runner_calls[2].args = <<"ansible-galaxy", "collection", "list">>
              /\ cli_pc = "done"
              /\ \A b \in {runner_calls[2].answer} :
                    /\ b.raises => IsListingError(cli_exc) /\ yielded = << >>
                    /\ ~b.raises =>
                          /\ (b.rc = 5 /\ NoUsablePaths \in b.stderr.has) =>
                                IsNone(cli_exc) /\ yielded = << >>
                          /\ (b.rc # 0 /\ ~(b.rc = 5 /\ NoUsablePaths \in b.stderr.has)) =>
                                IsListingError(cli_exc) /\ yielded = << >>
                          /\ (b.rc = 0 /\ ~IsNone(b.stdout.lines)) =>
                                /\ IsNone(cli_exc)
                                /\ \A i \in 1..Len(yielded) :
                                      \E j, r \in 1..Len(Val(b.stdout.lines)) :
                                          \A lines \in {Val(b.stdout.lines)} :
                                              /\ r < j /\ lines[r][1] = <<"#">>
                                              /\ Len(lines[j]) = 2
                                              /\ yielded[i].full_name = lines[j][1]
                                              /\ yielded[i].path[1] = lines[r][2])
    /\ [][/\ Len(runner_calls') = Len(runner_calls) + 1
          /\ SubSeq(runner_calls', 1, Len(runner_calls)) = runner_calls]_vars

\* the fallback invocation was made and returned rc 0 and a table: two
\* collections were yielded
C23_Witness ==
    /\ Len(runner_calls) = 2 /\ cli_pc = "done" /\ IsNone(cli_exc)
    /\ ~runner_calls[2].answer.raises /\ runner_calls[2].answer.rc = 0
    /\ Len(yielded) = 2
    /\ runner_calls[2].args # runner_calls[1].args


\* C24: when a collections_path (a non-empty string) is given, the env of
\* every runner invocation maps ANSIBLE_COLLECTIONS_PATH to it, and the env
\* of the fallback invocation also maps ANSIBLE_COLLECTIONS_PATHS to it;
\* every env maps every plugin-path variable to /dev/null, whatever
\* os.environ holds.
C24_EnvOfRunner ==
    \A i \in 1..Len(runner_calls) :
        /\ ~IsNone(runner_calls[i].env)
        /\ \A env \in {Val(runner_calls[i].env)} :
              /\ \A x \in PluginPathVars : x \in DOMAIN env /\ env[x] = DevNull
              /\ (~IsNone(cli_args.collections_path) /\ Val(cli_args.collections_path) # "") =>
                    /\ _COLLECTIONS_PATH_ENV_VAR \in DOMAIN env
                    /\ env[_COLLECTIONS_PATH_ENV_VAR] = Val(cli_args.collections_path)
                    /\ i = 2 =>
                          /\ _COLLECTIONS_PATH_ENV_VAR_COMPAT \in DOMAIN env
                          /\ env[_COLLECTIONS_PATH_ENV_VAR_COMPAT] =
                                Val(cli_args.collections_path)

====
